---- MODULE Spec2Model ----
(***************************************************************************)
(* The Uniwill laptop driver (uniwill-laptop.c): its EC register transport,*)
(* the register map it configures (uniwill_ec_config, a regmap with a      *)
(* maple-tree cache), and the handlers built on the map.                   *)
(*                                                                         *)
(* A handler is one action: it runs its regmap calls in program order on a *)
(* "machine" record m (the EC's registers, the regmap's cache and flags,   *)
(* the transport calls issued so far, and the fault the firmware will      *)
(* produce), and the action publishes the final machine as the next state. *)
(*                                                                         *)
(* The regmap core is the Linux kernel's (drivers/base/regmap): the        *)
(* operators regcache_read .. regcache_sync follow its code for the        *)
(* configuration the driver passes in uniwill_ec_config.                   *)
(***************************************************************************)
EXTENDS Integers, Sequences, FiniteSets, TLC

VARIABLES
    hw,                 \* the EC's registers: address -> byte
    cache,              \* regmap cache (REGCACHE_MAPLE): address -> byte or NoEntry
    cache_only,         \* regmap.cache_only
    cache_dirty,        \* regmap.cache_dirty
    cache_bypass,       \* regmap.cache_bypass
    last_charge_limit,  \* uniwill_data.last_charge_limit
    last_switch_status, \* uniwill_data.last_switch_status
    state,              \* driver lifecycle: "unbound", "active", "suspended"
    op,                 \* the operation that ran last and what it returned
    log,                \* the firmware calls the last operation issued, in order
    prev,               \* the operation before the last one
    target,             \* SpecMap: the address the map operations are applied to
    trk,                \* history of the current suspend/resume cycle
    super_key_lock,     \* uniwill_data.super_key_lock: the task holding the mutex
    tasks,              \* user tasks inside super_key_lock_store: their locals
    chain,              \* uniwill_wmi_chain_head: the registered observers
    batteries           \* uniwill_data.batteries: the list of battery entries

vars == <<hw, cache, cache_only, cache_dirty, cache_bypass, last_charge_limit,
          last_switch_status, state, op, log, prev, target, trk, super_key_lock,
          tasks, chain, batteries>>

----------------------------------------------------------------------------
\* Register addresses and bit masks (uniwill-laptop.c:81-270)

EC_ADDR_CPU_TEMP == 1086
EC_ADDR_GPU_TEMP == 1103
EC_ADDR_MAIN_FAN_RPM_1 == 1124
EC_ADDR_MAIN_FAN_RPM_2 == 1125
EC_ADDR_SECOND_FAN_RPM_1 == 1132
EC_ADDR_SECOND_FAN_RPM_2 == 1133
EC_ADDR_BAT_ALERT == 1172
EC_ADDR_PROJECT_ID == 1856
EC_ADDR_AP_OEM == 1857
ENABLE_MANUAL_CTRL == 1
EC_ADDR_SUPPORT_5 == 1858
EC_ADDR_LIGHTBAR_AC_CTRL == 1864
LIGHTBAR_APP_EXISTS == 1
LIGHTBAR_POWER_SAVE == 2
LIGHTBAR_S0_OFF == 4
LIGHTBAR_S3_OFF == 8
LIGHTBAR_WELCOME == 128
EC_ADDR_LIGHTBAR_AC_RED == 1865
EC_ADDR_LIGHTBAR_AC_GREEN == 1866
EC_ADDR_LIGHTBAR_AC_BLUE == 1867
EC_ADDR_BIOS_OEM == 1870
FN_LOCK_STATUS == 16
EC_ADDR_PWM_1 == 1883
EC_ADDR_PWM_2 == 1884
EC_ADDR_TRIGGER == 1895
TRIGGER_SUPER_KEY_LOCK == 1
EC_ADDR_SWITCH_STATUS == 1896
SUPER_KEY_LOCK_STATUS == 1
EC_ADDR_OEM_4 == 1958
TOUCHPAD_TOGGLE_OFF == 64
EC_ADDR_CHARGE_CTRL == 1977
CHARGE_CTRL_MASK == 127
CHARGE_CTRL_REACHED == 128
EC_ADDR_LIGHTBAR_BAT_CTRL == 2018
EC_ADDR_LIGHTBAR_BAT_RED == 2019
EC_ADDR_LIGHTBAR_BAT_GREEN == 2020
EC_ADDR_LIGHTBAR_BAT_BLUE == 2021
PWM_MAX == 200
U8_MAX == 255

\* uniwill_method_buffer.operation: 0x0000 writes, 0x0100 reads
OP_WRITE == 0
OP_READ == 256

\* The addresses of the model, ascending (the order the maple tree is walked
\* in): every register the map declares readable, and EC_ADDR_SUPPORT_5, which
\* it declares neither readable nor writeable.
RegOrder ==
    << EC_ADDR_CPU_TEMP, EC_ADDR_GPU_TEMP, EC_ADDR_MAIN_FAN_RPM_1,
       EC_ADDR_MAIN_FAN_RPM_2, EC_ADDR_SECOND_FAN_RPM_1, EC_ADDR_SECOND_FAN_RPM_2,
       EC_ADDR_BAT_ALERT, EC_ADDR_PROJECT_ID, EC_ADDR_AP_OEM, EC_ADDR_SUPPORT_5,
       EC_ADDR_LIGHTBAR_AC_CTRL, EC_ADDR_LIGHTBAR_AC_RED, EC_ADDR_LIGHTBAR_AC_GREEN,
       EC_ADDR_LIGHTBAR_AC_BLUE, EC_ADDR_BIOS_OEM, EC_ADDR_PWM_1, EC_ADDR_PWM_2,
       EC_ADDR_TRIGGER, EC_ADDR_SWITCH_STATUS, EC_ADDR_OEM_4, EC_ADDR_CHARGE_CTRL,
       EC_ADDR_LIGHTBAR_BAT_CTRL, EC_ADDR_LIGHTBAR_BAT_RED,
       EC_ADDR_LIGHTBAR_BAT_GREEN, EC_ADDR_LIGHTBAR_BAT_BLUE >>

Regs == { RegOrder[i] : i \in 1..Len(RegOrder) }

----------------------------------------------------------------------------
\* Bytes

Bit(v, i) == (v \div (2 ^ i)) % 2

\* a & b on bytes
BitAnd(a, b) ==
    LET t(i) == Bit(a, i) * Bit(b, i) * (2 ^ i)
    IN  t(0) + t(1) + t(2) + t(3) + t(4) + t(5) + t(6) + t(7)

\* a | b on bytes
BitOr(a, b) == a + b - BitAnd(a, b)

\* a & ~b on bytes
BitClear(a, b) == a - BitAnd(a, b)

NoEntry == 0 - 1    \* no cache entry for the address
NoVal == 0 - 1      \* the operation delivered no value

\* The firmware call's 32-bit result, as the four bytes get_unaligned_le32
\* reads (least significant first).
U32(b0) == << b0, 0, 0, 0 >>
Sentinel == << 254, 254, 254, 254 >>    \* 0xFEFEFEFE

----------------------------------------------------------------------------
\* The register map's tables

WriteableRegs ==
    { EC_ADDR_AP_OEM, EC_ADDR_LIGHTBAR_AC_CTRL, EC_ADDR_LIGHTBAR_AC_RED,
      EC_ADDR_LIGHTBAR_AC_GREEN, EC_ADDR_LIGHTBAR_AC_BLUE, EC_ADDR_BIOS_OEM,
      EC_ADDR_TRIGGER, EC_ADDR_OEM_4, EC_ADDR_CHARGE_CTRL,
      EC_ADDR_LIGHTBAR_BAT_CTRL, EC_ADDR_LIGHTBAR_BAT_RED,
      EC_ADDR_LIGHTBAR_BAT_GREEN, EC_ADDR_LIGHTBAR_BAT_BLUE }
\* A mutant: no writeable_reg in the map's configuration (every address is
\* then writeable).
uniwill_writeable_reg_any(reg) == TRUE

uniwill_writeable_reg(reg) == reg \in WriteableRegs

ReadableRegs ==
    { EC_ADDR_CPU_TEMP, EC_ADDR_GPU_TEMP, EC_ADDR_MAIN_FAN_RPM_1,
      EC_ADDR_MAIN_FAN_RPM_2, EC_ADDR_SECOND_FAN_RPM_1,
      EC_ADDR_SECOND_FAN_RPM_2, EC_ADDR_BAT_ALERT, EC_ADDR_PROJECT_ID,
      EC_ADDR_AP_OEM, EC_ADDR_LIGHTBAR_AC_CTRL, EC_ADDR_LIGHTBAR_AC_RED,
      EC_ADDR_LIGHTBAR_AC_GREEN, EC_ADDR_LIGHTBAR_AC_BLUE, EC_ADDR_BIOS_OEM,
      EC_ADDR_PWM_1, EC_ADDR_PWM_2, EC_ADDR_TRIGGER, EC_ADDR_SWITCH_STATUS,
      EC_ADDR_OEM_4, EC_ADDR_CHARGE_CTRL, EC_ADDR_LIGHTBAR_BAT_CTRL,
      EC_ADDR_LIGHTBAR_BAT_RED, EC_ADDR_LIGHTBAR_BAT_GREEN,
      EC_ADDR_LIGHTBAR_BAT_BLUE }
uniwill_readable_reg(reg) == reg \in ReadableRegs

\* A mutant: EC_ADDR_BIOS_OEM, EC_ADDR_AP_OEM and EC_ADDR_OEM_4 declared
\* volatile as well.
VolatileRegsMore ==
    { EC_ADDR_CPU_TEMP, EC_ADDR_GPU_TEMP, EC_ADDR_MAIN_FAN_RPM_1,
      EC_ADDR_MAIN_FAN_RPM_2, EC_ADDR_SECOND_FAN_RPM_1,
      EC_ADDR_SECOND_FAN_RPM_2, EC_ADDR_BAT_ALERT, EC_ADDR_PWM_1,
      EC_ADDR_PWM_2, EC_ADDR_TRIGGER, EC_ADDR_SWITCH_STATUS,
      EC_ADDR_CHARGE_CTRL, EC_ADDR_BIOS_OEM, EC_ADDR_AP_OEM, EC_ADDR_OEM_4 }
uniwill_volatile_reg_more(reg) == reg \in VolatileRegsMore

\* A mutant: EC_ADDR_CHARGE_CTRL left out of the volatile registers.
VolatileRegsLess ==
    { EC_ADDR_CPU_TEMP, EC_ADDR_GPU_TEMP, EC_ADDR_MAIN_FAN_RPM_1,
      EC_ADDR_MAIN_FAN_RPM_2, EC_ADDR_SECOND_FAN_RPM_1,
      EC_ADDR_SECOND_FAN_RPM_2, EC_ADDR_BAT_ALERT, EC_ADDR_PWM_1,
      EC_ADDR_PWM_2, EC_ADDR_TRIGGER, EC_ADDR_SWITCH_STATUS }
uniwill_volatile_reg_less(reg) == reg \in VolatileRegsLess

VolatileRegs ==
    { EC_ADDR_CPU_TEMP, EC_ADDR_GPU_TEMP, EC_ADDR_MAIN_FAN_RPM_1,
      EC_ADDR_MAIN_FAN_RPM_2, EC_ADDR_SECOND_FAN_RPM_1,
      EC_ADDR_SECOND_FAN_RPM_2, EC_ADDR_BAT_ALERT, EC_ADDR_PWM_1,
      EC_ADDR_PWM_2, EC_ADDR_TRIGGER, EC_ADDR_SWITCH_STATUS,
      EC_ADDR_CHARGE_CTRL }
uniwill_volatile_reg(reg) == reg \in VolatileRegs

----------------------------------------------------------------------------
\* Statements in sequence: F applied to the value of e, as a C statement uses
\* the value an earlier statement left in a local variable.
With(e, F(_)) == CHOOSE y \in { F(x) : x \in { e } } : TRUE

----------------------------------------------------------------------------
\* The EC behind the firmware call

\* What a write that reaches the EC does to its registers. TRIGGER is a pulse
\* register: writing TRIGGER_SUPER_KEY_LOCK toggles SUPER_KEY_LOCK_STATUS of
\* SWITCH_STATUS and the register keeps no value of its own. CHARGE_CTRL_REACHED
\* is the EC's flag: a write stores the 7-bit limit only.
EcWrite(h, reg, data) ==
    IF reg = EC_ADDR_TRIGGER
    THEN IF BitAnd(data, TRIGGER_SUPER_KEY_LOCK) # 0
         THEN [h EXCEPT ![EC_ADDR_SWITCH_STATUS] =
                  IF BitAnd(@, SUPER_KEY_LOCK_STATUS) # 0
                  THEN BitClear(@, SUPER_KEY_LOCK_STATUS)
                  ELSE BitOr(@, SUPER_KEY_LOCK_STATUS)]
         ELSE h
    ELSE IF reg = EC_ADDR_CHARGE_CTRL
    THEN [h EXCEPT ![reg] = BitOr(BitAnd(@, CHARGE_CTRL_REACHED),
                                  BitAnd(data, CHARGE_CTRL_MASK))]
    ELSE [h EXCEPT ![reg] = data]

\* How the firmware call numbered n of the running operation ends: as the
\* operation's fault says when it is the faulted call, well otherwise.
\*   "acpi"      the method evaluation fails (ACPI_FAILURE)
\*   "sentinel"  the EC does not answer: the result is 0xFEFEFEFE
FaultKinds == { "acpi", "sentinel" }
NoFault == [at |-> 0, kind |-> "acpi"]
Outcome(m) ==
    IF m.fault.at = Len(m.log) + 1 THEN m.fault.kind ELSE "ok"

\* uniwill_get_set_ulong: one firmware call. input = [address, data, operation].
\* Returns the machine after the call, the return code and the 32-bit output.
uniwill_get_set_ulong(m, input) ==
    LET kind == Outcome(m)
        ret == IF kind = "acpi" THEN "EIO" ELSE "ok"
        output ==
            IF kind = "acpi" THEN U32(0)
            ELSE IF kind = "sentinel" THEN Sentinel
            ELSE IF input.operation = OP_READ THEN U32(m.hw[input.address])
            ELSE U32(0)
        h == IF kind = "ok" /\ input.operation = OP_WRITE
             THEN EcWrite(m.hw, input.address, input.data)
             ELSE m.hw
        entry == [operation |-> input.operation, address |-> input.address,
                  data |-> input.data, ret |-> ret, output |-> output]
    IN  [m |-> [m EXCEPT !.hw = h, !.log = Append(@, entry)],
         ret |-> ret, output |-> output]

\* A mutant: the write path without its check for the sentinel.
uniwill_ec_reg_write_nocheck(m, reg, val) ==
    With(uniwill_get_set_ulong(m, [address |-> reg, data |-> val % (U8_MAX + 1),
                                   operation |-> OP_WRITE]),
         LAMBDA r : [m |-> r.m, ret |-> r.ret])

uniwill_ec_reg_write(m, reg, val) ==
    With(uniwill_get_set_ulong(m, [address |-> reg, data |-> val % (U8_MAX + 1),
                                   operation |-> OP_WRITE]),
         LAMBDA r :
           IF r.ret # "ok" THEN [m |-> r.m, ret |-> r.ret]
           ELSE IF r.output = Sentinel THEN [m |-> r.m, ret |-> "ENXIO"]
           ELSE [m |-> r.m, ret |-> "ok"])

\* A mutant: the read path without its check for the sentinel.
uniwill_ec_reg_read_nocheck(m, reg) ==
    With(uniwill_get_set_ulong(m, [address |-> reg, data |-> 0,
                                   operation |-> OP_READ]),
         LAMBDA r :
           IF r.ret # "ok" THEN [m |-> r.m, ret |-> r.ret, val |-> NoVal]
           ELSE [m |-> r.m, ret |-> "ok", val |-> r.output[1]])

uniwill_ec_reg_read(m, reg) ==
    With(uniwill_get_set_ulong(m, [address |-> reg, data |-> 0,
                                   operation |-> OP_READ]),
         LAMBDA r :
           IF r.ret # "ok" THEN [m |-> r.m, ret |-> r.ret, val |-> NoVal]
           ELSE IF r.output = Sentinel THEN [m |-> r.m, ret |-> "ENXIO", val |-> NoVal]
           ELSE [m |-> r.m, ret |-> "ok", val |-> r.output[1]])

----------------------------------------------------------------------------
\* The regmap core, as configured by uniwill_ec_config: 8-bit values, a maple
\* tree cache, no register defaults, a bus with reg_read and reg_write only.

\* regcache_read: a volatile register is never looked up (-EINVAL), an address
\* without an entry is -ENOENT.
regcache_read(m, reg) ==
    IF uniwill_volatile_reg(reg) THEN [ret |-> "EINVAL", val |-> NoVal]
    ELSE IF m.cache[reg] = NoEntry THEN [ret |-> "ENOENT", val |-> NoVal]
    ELSE [ret |-> "ok", val |-> m.cache[reg]]

\* regcache_write: a volatile register gets no entry.
regcache_write(m, reg, val) ==
    IF uniwill_volatile_reg(reg) THEN m
    ELSE [m EXCEPT !.cache[reg] = val]

\* _regmap_read
regmap_read(m, reg) ==
    LET c == IF m.cache_bypass THEN [ret |-> "EINVAL", val |-> NoVal]
             ELSE regcache_read(m, reg)
    IN  IF c.ret = "ok" THEN [m |-> m, ret |-> "ok", val |-> c.val]
        ELSE IF m.cache_only THEN [m |-> m, ret |-> "EBUSY", val |-> NoVal]
        ELSE IF ~uniwill_readable_reg(reg) THEN [m |-> m, ret |-> "EIO", val |-> NoVal]
        ELSE With(uniwill_ec_reg_read(m, reg),
                  LAMBDA t :
                    IF t.ret # "ok" THEN t
                    ELSE [m |-> IF t.m.cache_bypass THEN t.m
                                 ELSE regcache_write(t.m, reg, t.val),
                          ret |-> "ok", val |-> t.val])

\* _regmap_write: the cache is written first; in cache-only mode the map is
\* marked dirty and the bus is not touched.
regmap_write(m, reg, val) ==
    IF ~uniwill_writeable_reg(reg) THEN [m |-> m, ret |-> "EIO"]
    ELSE IF ~m.cache_bypass
    THEN With(regcache_write(m, reg, val),
              LAMBDA c :
                IF c.cache_only THEN [m |-> [c EXCEPT !.cache_dirty = TRUE], ret |-> "ok"]
                ELSE uniwill_ec_reg_write(c, reg, val))
    ELSE uniwill_ec_reg_write(m, reg, val)

\* _regmap_update_bits (the bus has no reg_update_bits): read, merge, and write
\* when the value changes or the write is forced.
regmap_update_bits_base(m, reg, mask, val, force_write) ==
    With(regmap_read(m, reg),
         LAMBDA r :
           LET tmp == BitOr(BitClear(r.val, mask), BitAnd(val, mask))
           IN  IF r.ret # "ok" THEN [m |-> r.m, ret |-> r.ret]
               ELSE IF force_write \/ tmp # r.val THEN regmap_write(r.m, reg, tmp)
               ELSE [m |-> r.m, ret |-> "ok"])

regmap_update_bits(m, reg, mask, val) == regmap_update_bits_base(m, reg, mask, val, FALSE)
regmap_write_bits(m, reg, mask, val) == regmap_update_bits_base(m, reg, mask, val, TRUE)
regmap_set_bits(m, reg, bits) == regmap_update_bits_base(m, reg, bits, bits, FALSE)
regmap_clear_bits(m, reg, bits) == regmap_update_bits_base(m, reg, bits, 0, FALSE)

\* regmap_bulk_read of val_count registers from reg on (a bus without a raw
\* read: one regmap_read per register, stopping at the first that fails). val
\* is the sequence of the bytes read.
RECURSIVE regmap_bulk_read_from(_, _, _, _)
regmap_bulk_read_from(m, reg, val_count, got) ==
    IF Len(got) = val_count THEN [m |-> m, ret |-> "ok", val |-> got]
    ELSE With(regmap_read(m, reg + Len(got)),
              LAMBDA r :
                IF r.ret # "ok" THEN [m |-> r.m, ret |-> r.ret, val |-> got]
                ELSE regmap_bulk_read_from(r.m, reg, val_count, Append(got, r.val)))

regmap_bulk_read(m, reg, val_count) == regmap_bulk_read_from(m, reg, val_count, << >>)

regcache_cache_only(m, enable) == [m EXCEPT !.cache_only = enable]
regcache_mark_dirty(m) == [m EXCEPT !.cache_dirty = TRUE]

\* regcache_reg_needs_sync: every writeable register that has an entry (the
\* map has no defaults to compare with).
regcache_reg_needs_sync(m, reg) ==
    uniwill_writeable_reg(reg) /\ m.cache[reg] # NoEntry

\* regcache_maple_sync: the entries in ascending address order, each written
\* with the cache bypassed, stopping at the first write that fails.
RECURSIVE regcache_maple_sync(_, _)
regcache_maple_sync(m, i) ==
    IF i > Len(RegOrder) THEN [m |-> m, ret |-> "ok"]
    ELSE IF ~regcache_reg_needs_sync(m, RegOrder[i]) THEN regcache_maple_sync(m, i + 1)
    ELSE With(regmap_write([m EXCEPT !.cache_bypass = TRUE], RegOrder[i],
                           m.cache[RegOrder[i]]),
              LAMBDA w :
                With([w.m EXCEPT !.cache_bypass = FALSE],
                     LAMBDA after :
                       IF w.ret # "ok" THEN [m |-> after, ret |-> w.ret]
                       ELSE regcache_maple_sync(after, i + 1)))

\* regcache_sync: nothing to do unless the map is dirty; the map is clean only
\* when every write succeeded.
regcache_sync(m) ==
    IF ~m.cache_dirty THEN [m |-> m, ret |-> "ok"]
    ELSE With(regcache_maple_sync(m, 1),
              LAMBDA s :
                IF s.ret = "ok"
                THEN [m |-> [s.m EXCEPT !.cache_dirty = FALSE], ret |-> "ok"]
                ELSE s)

----------------------------------------------------------------------------
\* Running an operation

\* The machine an operation starts on: the current state, no call issued yet,
\* and the fault f the firmware will produce.
Machine(f) ==
    [hw |-> hw, cache |-> cache, cache_only |-> cache_only,
     cache_dirty |-> cache_dirty, cache_bypass |-> cache_bypass,
     log |-> << >>, fault |-> f]

\* The operation's final machine becomes the state.
Commit(m) ==
    /\ hw' = m.hw
    /\ cache' = m.cache
    /\ cache_only' = m.cache_only
    /\ cache_dirty' = m.cache_dirty
    /\ cache_bypass' = m.cache_bypass
    /\ log' = m.log

\* What is kept of an operation: its name, the address and value it was given,
\* its return code, the value it delivered and how many firmware calls it issued.
OpRec(name, reg, val, ret, out, calls) ==
    [name |-> name, reg |-> reg, val |-> val, ret |-> ret, out |-> out,
     calls |-> calls]

NoOp == OpRec("none", NoVal, NoVal, "ok", NoVal, 0)

\* A user task's position in super_key_lock_store and the function's locals.
\*   pc     "idle", "lock", "read", "compare", "write" or "done"
\*   buf    the string the task wrote to the attribute
\*   ret    the local ret (an index or 0), at "done" what the call returned
\*   value  the local value: the SWITCH_STATUS byte the task read
\*   fired  the firmware writes to TRIGGER the call issued
\*   stale  whether such a write was issued when the status on the EC was no
\*          longer the one the task had read
NoTask ==
    [pc |-> "idle", buf |-> "", ret |-> NoVal, value |-> NoVal, fired |-> 0,
     stale |-> FALSE]

----------------------------------------------------------------------------
\* Bounds

NSamples == 3       \* SpecMap: how many of the sample bytes are used
NTasks == 2         \* user tasks that may call an attribute at the same time
NObservers == 3     \* notifier blocks that may be registered on the WMI chain

Samples == << 0, 254, 16, 255, 1 >>
Bytes == { Samples[i] : i \in 1..NSamples }

Tasks == 1..NTasks
NoTasks == [t \in Tasks |-> NoTask]

\* The faults an operation can meet: none, or one of the n firmware calls it
\* issues when none fails ends badly (one fault per operation).
FaultsFor(n) == { NoFault } \cup [at : 1..n, kind : FaultKinds]
Calls(r) == Len(r.m.log)

----------------------------------------------------------------------------
\* SpecMap: the register map alone, applied to one address at a time. Init
\* draws the address and the EC's content for it; the actions are the map's
\* operations on that address and the EC changing the register by itself.

HwReset == [r \in Regs |-> 0]
NoCache == [r \in Regs |-> NoEntry]
NoTrk == [phase |-> "idle"]

InitMap ==
    /\ target \in Regs
    /\ \E b \in Bytes : hw = [HwReset EXCEPT ![target] = b]
    /\ cache = NoCache
    /\ cache_only = FALSE
    /\ cache_dirty = FALSE
    /\ cache_bypass = FALSE
    /\ last_charge_limit = 0
    /\ last_switch_status = 0
    /\ state = "active"
    /\ op = NoOp
    /\ log = << >>
    /\ prev = NoOp
    /\ trk = NoTrk
    /\ super_key_lock = NoVal
    /\ tasks = NoTasks
    /\ chain = << >>
    /\ batteries = << >>

DriverUnchanged ==
    UNCHANGED <<last_charge_limit, last_switch_status, state, target, trk,
                super_key_lock, tasks, chain, batteries>>

MapRead ==
    \E f \in FaultsFor(Calls(regmap_read(Machine(NoFault), target))) :
        \E r \in { regmap_read(Machine(f), target) } :
            /\ Commit(r.m)
            /\ op' = OpRec("read", target, NoVal, r.ret, r.val, Len(r.m.log))
            /\ prev' = op
            /\ DriverUnchanged

MapWrite ==
    \E v \in Bytes, f \in FaultsFor(Calls(regmap_write(Machine(NoFault), target, 0))) :
        \E r \in { regmap_write(Machine(f), target, v) } :
            /\ Commit(r.m)
            /\ op' = OpRec("write", target, v, r.ret, NoVal, Len(r.m.log))
            /\ prev' = op
            /\ DriverUnchanged

MapCacheOnly ==
    \E enable \in BOOLEAN :
        /\ enable # cache_only
        /\ Commit(regcache_cache_only(Machine(NoFault), enable))
        /\ op' = OpRec("cache_only", NoVal, NoVal, "ok", NoVal, 0)
        /\ prev' = op
        /\ DriverUnchanged

\* The EC changes the register by itself.
EcChange ==
    \E b \in Bytes :
        /\ b # hw[target]
        /\ hw' = [hw EXCEPT ![target] = b]
        /\ op' = OpRec("ec", target, b, "ok", NoVal, 0)
        /\ log' = << >>
        /\ prev' = op
        /\ UNCHANGED <<cache, cache_only, cache_dirty, cache_bypass>>
        /\ DriverUnchanged

NextMap == MapRead \/ MapWrite \/ MapCacheOnly \/ EcChange

SpecMap == InitMap /\ [][NextMap]_vars

----------------------------------------------------------------------------
\* The driver's handlers. Each takes the machine m (and the driver's own data d
\* where it uses it) and returns the machine it leaves, its return code and
\* what it delivers. "ok" stands for every non-negative return (0, count).

\* uniwill_data's fields that the handlers keep
Data == [last_charge_limit |-> last_charge_limit,
         last_switch_status |-> last_switch_status]

\* sysfs_match_string(uniwill_enable_disable_strings, buf): the index of the
\* string, or -EINVAL
sysfs_match_string(buf) ==
    IF buf = "disable" THEN 0 ELSE IF buf = "enable" THEN 1 ELSE NoVal

str_enable_disable(v) == IF v THEN "enable" ELSE "disable"

fn_lock_store(m, buf) ==
    LET ret == sysfs_match_string(buf)
        value == IF ret # 0 THEN FN_LOCK_STATUS ELSE 0
    IN  IF ret < 0 THEN [m |-> m, ret |-> "EINVAL"]
        ELSE regmap_update_bits(m, EC_ADDR_BIOS_OEM, FN_LOCK_STATUS, value)

fn_lock_show(m) ==
    With(regmap_read(m, EC_ADDR_BIOS_OEM),
         LAMBDA r :
           IF r.ret # "ok" THEN [m |-> r.m, ret |-> r.ret, out |-> "none"]
           ELSE [m |-> r.m, ret |-> "ok",
                 out |-> str_enable_disable(BitAnd(r.val, FN_LOCK_STATUS) # 0)])

\* A mutant: the touchpad bit stored as given, not inverted.
touchpad_toggle_store_direct(m, buf) ==
    LET ret == sysfs_match_string(buf)
        value == IF ret # 0 THEN TOUCHPAD_TOGGLE_OFF ELSE 0
    IN  IF ret < 0 THEN [m |-> m, ret |-> "EINVAL"]
        ELSE regmap_update_bits(m, EC_ADDR_OEM_4, TOUCHPAD_TOGGLE_OFF, value)

touchpad_toggle_store(m, buf) ==
    LET ret == sysfs_match_string(buf)
        value == IF ret # 0 THEN 0 ELSE TOUCHPAD_TOGGLE_OFF
    IN  IF ret < 0 THEN [m |-> m, ret |-> "EINVAL"]
        ELSE regmap_update_bits(m, EC_ADDR_OEM_4, TOUCHPAD_TOGGLE_OFF, value)

touchpad_toggle_show(m) ==
    With(regmap_read(m, EC_ADDR_OEM_4),
         LAMBDA r :
           IF r.ret # "ok" THEN [m |-> r.m, ret |-> r.ret, out |-> "none"]
           ELSE [m |-> r.m, ret |-> "ok",
                 out |-> str_enable_disable(BitAnd(r.val, TOUCHPAD_TOGGLE_OFF) = 0)])

\* A mutant: the devm action leaves the register alone.
uniwill_disable_manual_control_keep(m) == m

\* uniwill_disable_manual_control (the devm action, and uniwill_shutdown's
\* body): the result of regmap_clear_bits is not looked at.
uniwill_disable_manual_control(m) ==
    regmap_clear_bits(m, EC_ADDR_AP_OEM, ENABLE_MANUAL_CTRL).m

\* uniwill_ec_init, up to the registration of the devm action
uniwill_ec_init(m) ==
    With(regmap_read(m, EC_ADDR_PROJECT_ID),
         LAMBDA r :
           IF r.ret # "ok" THEN [m |-> r.m, ret |-> r.ret]
           ELSE regmap_set_bits(r.m, EC_ADDR_AP_OEM, ENABLE_MANUAL_CTRL))

\* Mutant: the welcome animation flag is not part of the mask.
LIGHTBAR_MASK_nowelcome == LIGHTBAR_APP_EXISTS + LIGHTBAR_S0_OFF + LIGHTBAR_S3_OFF

LIGHTBAR_MASK ==
    LIGHTBAR_APP_EXISTS + LIGHTBAR_S0_OFF + LIGHTBAR_S3_OFF + LIGHTBAR_WELCOME

uniwill_led_channel_to_bat_reg ==
    << EC_ADDR_LIGHTBAR_BAT_RED, EC_ADDR_LIGHTBAR_BAT_GREEN, EC_ADDR_LIGHTBAR_BAT_BLUE >>

uniwill_led_channel_to_ac_reg ==
    << EC_ADDR_LIGHTBAR_AC_RED, EC_ADDR_LIGHTBAR_AC_GREEN, EC_ADDR_LIGHTBAR_AC_BLUE >>

\* uniwill_led_init's loop over the channels, from channel i (1-based)
RECURSIVE uniwill_led_init_channels(_, _)
uniwill_led_init_channels(m, i) ==
    IF i > Len(uniwill_led_channel_to_ac_reg) THEN [m |-> m, ret |-> "ok"]
    ELSE With(regmap_read(m, uniwill_led_channel_to_ac_reg[i]),
              LAMBDA r :
                IF r.ret # "ok" THEN [m |-> r.m, ret |-> r.ret]
                ELSE With(regmap_write(r.m, uniwill_led_channel_to_bat_reg[i], r.val),
                          LAMBDA w :
                            IF w.ret # "ok" THEN w
                            ELSE uniwill_led_init_channels(w.m, i + 1)))

\* uniwill_led_init, up to the registration of the LED class device
uniwill_led_init(m) ==
    With(regmap_read(m, EC_ADDR_LIGHTBAR_AC_CTRL),
         LAMBDA r :
           LET value == BitClear(BitOr(r.val, LIGHTBAR_APP_EXISTS + LIGHTBAR_S3_OFF),
                                 LIGHTBAR_WELCOME)
           IN  IF r.ret # "ok" THEN [m |-> r.m, ret |-> r.ret]
               ELSE With(regmap_write(r.m, EC_ADDR_LIGHTBAR_AC_CTRL, value),
                         LAMBDA w :
                           IF w.ret # "ok" THEN w
                           ELSE With(regmap_update_bits(w.m, EC_ADDR_LIGHTBAR_BAT_CTRL,
                                                        LIGHTBAR_MASK, value),
                                     LAMBDA u :
                                       IF u.ret # "ok" THEN u
                                       ELSE uniwill_led_init_channels(u.m, 1))))

\* led_mc_calc_color_components (the LED core, max_brightness is U8_MAX): the
\* brightness of every channel from the LED's brightness and the channel's
\* intensity
led_mc_calc_color_components(brightness, intensity) ==
    [i \in 1..Len(intensity) |-> (brightness * intensity[i]) \div U8_MAX]

Min(a, b) == IF a < b THEN a ELSE b

\* uniwill_led_brightness_set's loop over the channels, from channel i
\* (1-based); subled[i] is led_mc_subled_info[i].brightness
RECURSIVE uniwill_led_brightness_set_channels(_, _, _, _)
uniwill_led_brightness_set_channels(m, subled, intensity, i) ==
    IF i > Len(uniwill_led_channel_to_ac_reg) THEN [m |-> m, ret |-> "ok"]
    ELSE LET value == Min(U8_MAX, subled[i])
         IN  With(regmap_write(m, uniwill_led_channel_to_ac_reg[i], value),
                  LAMBDA a :
                    IF a.ret # "ok" THEN a
                    ELSE With(regmap_write(a.m, uniwill_led_channel_to_bat_reg[i], value),
                              LAMBDA b :
                                IF b.ret # "ok" THEN b
                                ELSE uniwill_led_brightness_set_channels(
                                         b.m, subled, intensity, i + 1)))

\* uniwill_led_brightness_set: brightness is what the LED core passes,
\* intensity the multi_intensity of the three channels
uniwill_led_brightness_set(m, brightness, intensity) ==
    LET subled == led_mc_calc_color_components(brightness, intensity)
        value == IF brightness # 0 THEN 0 ELSE LIGHTBAR_S0_OFF
    IN  With(uniwill_led_brightness_set_channels(m, subled, intensity, 1),
             LAMBDA c :
               IF c.ret # "ok" THEN c
               ELSE With(regmap_update_bits(c.m, EC_ADDR_LIGHTBAR_AC_CTRL,
                                            LIGHTBAR_S0_OFF, value),
                         LAMBDA a :
                           IF a.ret # "ok" THEN a
                           ELSE regmap_update_bits(a.m, EC_ADDR_LIGHTBAR_BAT_CTRL,
                                                   LIGHTBAR_S0_OFF, value)))

Max(a, b) == IF a > b THEN a ELSE b

\* clamp_val(v, lo, hi)
clamp_val(v, lo, hi) == Min(Max(v, lo), hi)

\* FIELD_GET(CHARGE_CTRL_MASK, regval): the mask starts at bit 0
FIELD_GET_CHARGE_CTRL(regval) == BitAnd(regval, CHARGE_CTRL_MASK)

\* uniwill_get_property. psp is the property asked for; bat is what the
\* battery's own driver answers to power_supply_get_property for PRESENT and
\* STATUS: a return code and a value each.
uniwill_get_property(m, psp, bat) ==
    IF psp = "HEALTH"
    THEN IF bat.present_ret # "ok" THEN [m |-> m, ret |-> bat.present_ret, val |-> NoVal]
         ELSE IF bat.present = 0 THEN [m |-> m, ret |-> "ok", val |-> "NO_BATTERY"]
         ELSE IF bat.status_ret # "ok" THEN [m |-> m, ret |-> bat.status_ret, val |-> NoVal]
         ELSE IF bat.status = "UNKNOWN" THEN [m |-> m, ret |-> "ok", val |-> "UNKNOWN"]
         ELSE With(regmap_read(m, EC_ADDR_BAT_ALERT),
                   LAMBDA r :
                     IF r.ret # "ok" THEN [m |-> r.m, ret |-> r.ret, val |-> NoVal]
                     ELSE [m |-> r.m, ret |-> "ok",
                           val |-> IF r.val # 0 THEN "UNSPEC_FAILURE" ELSE "GOOD"])
    ELSE IF psp = "CHARGE_CONTROL_END_THRESHOLD"
    THEN With(regmap_read(m, EC_ADDR_CHARGE_CTRL),
              LAMBDA r :
                IF r.ret # "ok" THEN [m |-> r.m, ret |-> r.ret, val |-> NoVal]
                ELSE [m |-> r.m, ret |-> "ok",
                      val |-> clamp_val(FIELD_GET_CHARGE_CTRL(r.val), 0, 100)])
    ELSE [m |-> m, ret |-> "EINVAL", val |-> NoVal]

\* Mutant: the threshold is written without the range check.
uniwill_set_property_norange(m, psp, intval) ==
    IF psp = "CHARGE_CONTROL_END_THRESHOLD"
    THEN regmap_update_bits(m, EC_ADDR_CHARGE_CTRL, CHARGE_CTRL_MASK,
                            BitAnd(intval % (U8_MAX + 1), U8_MAX))
    ELSE [m |-> m, ret |-> "EINVAL"]

\* Mutant: the whole byte is written, not the 7-bit field.
uniwill_set_property_fullbyte(m, psp, intval) ==
    IF psp = "CHARGE_CONTROL_END_THRESHOLD"
    THEN IF intval < 1 \/ intval > 100 THEN [m |-> m, ret |-> "EINVAL"]
         ELSE regmap_update_bits(m, EC_ADDR_CHARGE_CTRL, U8_MAX, intval)
    ELSE [m |-> m, ret |-> "EINVAL"]

\* uniwill_set_property
uniwill_set_property(m, psp, intval) ==
    IF psp = "CHARGE_CONTROL_END_THRESHOLD"
    THEN IF intval < 1 \/ intval > 100 THEN [m |-> m, ret |-> "EINVAL"]
         ELSE regmap_update_bits(m, EC_ADDR_CHARGE_CTRL, CHARGE_CTRL_MASK, intval)
    ELSE [m |-> m, ret |-> "EINVAL"]

\* be16_to_cpu of the two bytes read into rpm
be16_to_cpu(rpm) == rpm[1] * (U8_MAX + 1) + rpm[2]

\* A mutant: the slope divided before it is multiplied.
fixp_linear_interpolate_divfirst(x0, y0, x1, y1, x) ==
    IF y0 = y1 \/ x = x0 THEN y0
    ELSE IF x1 = x0 THEN y1
    ELSE y0 + ((y1 - y0) \div (x1 - x0)) * (x - x0)

\* fixp_linear_interpolate(x0, y0, x1, y1, x)
fixp_linear_interpolate(x0, y0, x1, y1, x) ==
    IF y0 = y1 \/ x = x0 THEN y0
    ELSE IF x1 = x0 \/ x = x1 THEN y1
    ELSE y0 + ((y1 - y0) * (x - x0)) \div (x1 - x0)

\* The register uniwill_read reads for a type and a channel, NoVal for -EOPNOTSUPP
uniwill_read_reg(type, channel) ==
    IF channel \notin { 0, 1 } THEN NoVal
    ELSE IF type = "temp"
         THEN IF channel = 0 THEN EC_ADDR_CPU_TEMP ELSE EC_ADDR_GPU_TEMP
    ELSE IF type = "fan"
         THEN IF channel = 0 THEN EC_ADDR_MAIN_FAN_RPM_1 ELSE EC_ADDR_SECOND_FAN_RPM_1
    ELSE IF type = "pwm"
         THEN IF channel = 0 THEN EC_ADDR_PWM_1 ELSE EC_ADDR_PWM_2
    ELSE NoVal

\* uniwill_read. uninit is what the local value holds before anything is
\* stored in it: the pwm path uses value without looking at ret, so after a
\* failed regmap_read it computes from whatever value held.
uniwill_read(m, type, channel, uninit) ==
    LET reg == uniwill_read_reg(type, channel)
    IN  IF reg = NoVal THEN [m |-> m, ret |-> "EOPNOTSUPP", val |-> NoVal]
        ELSE IF type = "fan"
        THEN With(regmap_bulk_read(m, reg, 2),
                  LAMBDA r :
                    IF r.ret # "ok" THEN [m |-> r.m, ret |-> r.ret, val |-> NoVal]
                    ELSE [m |-> r.m, ret |-> "ok", val |-> be16_to_cpu(r.val)])
        ELSE With(regmap_read(m, reg),
                  LAMBDA r :
                    LET value == IF r.ret = "ok" THEN r.val ELSE uninit
                    IN  IF type = "temp"
                        THEN IF r.ret # "ok"
                             THEN [m |-> r.m, ret |-> r.ret, val |-> NoVal]
                             ELSE [m |-> r.m, ret |-> "ok", val |-> value * 1000]
                        ELSE [m |-> r.m, ret |-> "ok",
                              val |-> fixp_linear_interpolate(0, 0, PWM_MAX, U8_MAX, value)])

\* led_classdev_unregister, which the release of the LED class device runs:
\* the LED is switched off through brightness_set_blocking (the flags have no
\* LED_RETAIN_AT_SHUTDOWN) and what that returns is not looked at.
led_classdev_unregister(m) ==
    uniwill_led_brightness_set(m, 0, << 0, 0, 0 >>).m

\* The steps of uniwill_probe that can fail without a firmware call: the
\* registrations with the driver core and the other subsystems.
ProbeSteps ==
    { "none", "devm_add_action", "battery_init", "led_register", "hwmon_init",
      "notifier_init" }

\* uniwill_probe when the registration named by failing fails with -ENOMEM
\* ("none": they all succeed): uniwill_ec_init with its
\* devm_add_action_or_reset, uniwill_battery_init, uniwill_led_init with its
\* registration of the LED, uniwill_hwmon_init, uniwill_notifier_init. When a
\* step fails the driver core releases what was registered, newest first: the
\* LED class device if it was registered, then the action
\* uniwill_disable_manual_control. step is the step that failed.
uniwill_probe_failing(m, failing) ==
    With(uniwill_ec_init(m),
         LAMBDA e :
           IF e.ret # "ok" THEN [m |-> e.m, ret |-> e.ret, step |-> "ec_init"]
           ELSE IF failing \in { "devm_add_action", "battery_init" }
           THEN [m |-> uniwill_disable_manual_control(e.m), ret |-> "ENOMEM",
                 step |-> failing]
           ELSE With(uniwill_led_init(e.m),
                     LAMBDA l :
                       IF l.ret # "ok"
                       THEN [m |-> uniwill_disable_manual_control(l.m), ret |-> l.ret,
                             step |-> "led_init"]
                       ELSE IF failing = "led_register"
                       THEN [m |-> uniwill_disable_manual_control(l.m), ret |-> "ENOMEM",
                             step |-> failing]
                       ELSE IF failing \in { "hwmon_init", "notifier_init" }
                       THEN [m |-> uniwill_disable_manual_control(
                                       led_classdev_unregister(l.m)),
                             ret |-> "ENOMEM", step |-> failing]
                       ELSE [m |-> l.m, ret |-> "ok", step |-> "none"]))

\* uniwill_probe with every registration succeeding
uniwill_probe(m) == uniwill_probe_failing(m, "none")

\* The device is detached from the bound driver (the driver has no remove
\* callback): the driver core releases what uniwill_probe registered, newest
\* first.
devres_release_all(m) ==
    uniwill_disable_manual_control(led_classdev_unregister(m))

\* uniwill_shutdown
uniwill_shutdown(m) ==
    regmap_clear_bits(m, EC_ADDR_AP_OEM, ENABLE_MANUAL_CTRL).m

\* A mutant: the map is handed to the cache even when the second read failed.
uniwill_suspend_anyway(m, d) ==
    With(regmap_read(m, EC_ADDR_SWITCH_STATUS),
         LAMBDA s :
           IF s.ret # "ok" THEN [m |-> s.m, d |-> d, ret |-> s.ret]
           ELSE With(regmap_read(s.m, EC_ADDR_CHARGE_CTRL),
                     LAMBDA c :
                       LET d1 == [d EXCEPT !.last_switch_status = s.val]
                           d2 == [d1 EXCEPT !.last_charge_limit =
                                               BitAnd(c.val, CHARGE_CTRL_MASK)]
                       IN  IF c.ret # "ok"
                           THEN [m |-> regcache_mark_dirty(regcache_cache_only(c.m, TRUE)),
                                 d |-> d1, ret |-> c.ret]
                           ELSE [m |-> regcache_mark_dirty(regcache_cache_only(c.m, TRUE)),
                                 d |-> d2, ret |-> "ok"]))

\* A mutant: the charge limit is not saved.
uniwill_suspend_nosave(m, d) ==
    With(regmap_read(m, EC_ADDR_SWITCH_STATUS),
         LAMBDA s :
           IF s.ret # "ok" THEN [m |-> s.m, d |-> d, ret |-> s.ret]
           ELSE With(regmap_read(s.m, EC_ADDR_CHARGE_CTRL),
                     LAMBDA c :
                       LET d1 == [d EXCEPT !.last_switch_status = s.val]
                           d2 == [d1 EXCEPT !.last_charge_limit =
                                               BitAnd(c.val, CHARGE_CTRL_MASK)]
                       IN  IF c.ret # "ok" THEN [m |-> c.m, d |-> d1, ret |-> c.ret]
                           ELSE [m |-> regcache_mark_dirty(regcache_cache_only(c.m, TRUE)),
                                 d |-> d1, ret |-> "ok"]))

\* A mutant: the cache is not marked dirty.
uniwill_suspend_nodirty(m, d) ==
    With(regmap_read(m, EC_ADDR_SWITCH_STATUS),
         LAMBDA s :
           IF s.ret # "ok" THEN [m |-> s.m, d |-> d, ret |-> s.ret]
           ELSE With(regmap_read(s.m, EC_ADDR_CHARGE_CTRL),
                     LAMBDA c :
                       LET d1 == [d EXCEPT !.last_switch_status = s.val]
                           d2 == [d1 EXCEPT !.last_charge_limit =
                                               BitAnd(c.val, CHARGE_CTRL_MASK)]
                       IN  IF c.ret # "ok" THEN [m |-> c.m, d |-> d1, ret |-> c.ret]
                           ELSE [m |-> regcache_cache_only(c.m, TRUE), d |-> d2, ret |-> "ok"]))

\* A mutant: the map is not put into cache-only mode.
uniwill_suspend_live(m, d) ==
    With(regmap_read(m, EC_ADDR_SWITCH_STATUS),
         LAMBDA s :
           IF s.ret # "ok" THEN [m |-> s.m, d |-> d, ret |-> s.ret]
           ELSE With(regmap_read(s.m, EC_ADDR_CHARGE_CTRL),
                     LAMBDA c :
                       LET d1 == [d EXCEPT !.last_switch_status = s.val]
                           d2 == [d1 EXCEPT !.last_charge_limit =
                                               BitAnd(c.val, CHARGE_CTRL_MASK)]
                       IN  IF c.ret # "ok" THEN [m |-> c.m, d |-> d1, ret |-> c.ret]
                           ELSE [m |-> regcache_mark_dirty(c.m), d |-> d2, ret |-> "ok"]))

uniwill_suspend(m, d) ==
    With(regmap_read(m, EC_ADDR_SWITCH_STATUS),
         LAMBDA s :
           IF s.ret # "ok" THEN [m |-> s.m, d |-> d, ret |-> s.ret]
           ELSE With(regmap_read(s.m, EC_ADDR_CHARGE_CTRL),
                     LAMBDA c :
                       LET d1 == [d EXCEPT !.last_switch_status = s.val]
                           d2 == [d1 EXCEPT !.last_charge_limit =
                                               BitAnd(c.val, CHARGE_CTRL_MASK)]
                       IN  IF c.ret # "ok" THEN [m |-> c.m, d |-> d1, ret |-> c.ret]
                           ELSE [m |-> regcache_mark_dirty(regcache_cache_only(c.m, TRUE)),
                                 d |-> d2, ret |-> "ok"]))

\* A mutant: the saved charge limit is clamped to 1..100 before it is restored.
uniwill_resume_clamped(m, d) ==
    With(regcache_sync(regcache_cache_only(m, FALSE)),
         LAMBDA s :
           IF s.ret # "ok" THEN s
           ELSE With(regmap_update_bits(s.m, EC_ADDR_CHARGE_CTRL, CHARGE_CTRL_MASK,
                                   clamp_val(d.last_charge_limit, 1, 100)),
             LAMBDA c :
               IF c.ret # "ok" THEN c
               ELSE With(regmap_read(c.m, EC_ADDR_SWITCH_STATUS),
                 LAMBDA r :
                   IF r.ret # "ok" THEN [m |-> r.m, ret |-> r.ret]
                   ELSE IF BitAnd(d.last_switch_status, SUPER_KEY_LOCK_STATUS)
                           = BitAnd(r.val, SUPER_KEY_LOCK_STATUS)
                   THEN [m |-> r.m, ret |-> "ok"]
                   ELSE regmap_write_bits(r.m, EC_ADDR_TRIGGER, TRIGGER_SUPER_KEY_LOCK,
                                          TRIGGER_SUPER_KEY_LOCK))))

\* A mutant: the cache is not written back.
uniwill_resume_nosync(m, d) ==
    With(regmap_update_bits(regcache_cache_only(m, FALSE), EC_ADDR_CHARGE_CTRL,
                            CHARGE_CTRL_MASK, d.last_charge_limit),
         LAMBDA c :
           IF c.ret # "ok" THEN c
           ELSE With(regmap_read(c.m, EC_ADDR_SWITCH_STATUS),
             LAMBDA r :
               IF r.ret # "ok" THEN [m |-> r.m, ret |-> r.ret]
               ELSE IF BitAnd(d.last_switch_status, SUPER_KEY_LOCK_STATUS)
                       = BitAnd(r.val, SUPER_KEY_LOCK_STATUS)
               THEN [m |-> r.m, ret |-> "ok"]
               ELSE regmap_write_bits(r.m, EC_ADDR_TRIGGER, TRIGGER_SUPER_KEY_LOCK,
                                      TRIGGER_SUPER_KEY_LOCK)))

\* A mutant: the trigger is written when the two status bits are equal.
uniwill_resume_inverted(m, d) ==
    With(regcache_sync(regcache_cache_only(m, FALSE)),
         LAMBDA s :
           IF s.ret # "ok" THEN s
           ELSE With(regmap_update_bits(s.m, EC_ADDR_CHARGE_CTRL, CHARGE_CTRL_MASK,
                                   d.last_charge_limit),
             LAMBDA c :
               IF c.ret # "ok" THEN c
               ELSE With(regmap_read(c.m, EC_ADDR_SWITCH_STATUS),
                 LAMBDA r :
                   IF r.ret # "ok" THEN [m |-> r.m, ret |-> r.ret]
                   ELSE IF BitAnd(d.last_switch_status, SUPER_KEY_LOCK_STATUS)
                           # BitAnd(r.val, SUPER_KEY_LOCK_STATUS)
                   THEN [m |-> r.m, ret |-> "ok"]
                   ELSE regmap_write_bits(r.m, EC_ADDR_TRIGGER, TRIGGER_SUPER_KEY_LOCK,
                                          TRIGGER_SUPER_KEY_LOCK))))

\* A mutant: what regcache_sync returns is not looked at.
uniwill_resume_nocheck(m, d) ==
    With(regcache_sync(regcache_cache_only(m, FALSE)),
         LAMBDA s :
           With(regmap_update_bits(s.m, EC_ADDR_CHARGE_CTRL, CHARGE_CTRL_MASK,
                                   d.last_charge_limit),
             LAMBDA c :
               IF c.ret # "ok" THEN c
               ELSE With(regmap_read(c.m, EC_ADDR_SWITCH_STATUS),
                 LAMBDA r :
                   IF r.ret # "ok" THEN [m |-> r.m, ret |-> r.ret]
                   ELSE IF BitAnd(d.last_switch_status, SUPER_KEY_LOCK_STATUS)
                           = BitAnd(r.val, SUPER_KEY_LOCK_STATUS)
                   THEN [m |-> r.m, ret |-> "ok"]
                   ELSE regmap_write_bits(r.m, EC_ADDR_TRIGGER, TRIGGER_SUPER_KEY_LOCK,
                                          TRIGGER_SUPER_KEY_LOCK))))

\* A mutant: the cache is dropped once it is synced.
uniwill_resume_drop(m, d) ==
    With(With(regcache_sync(regcache_cache_only(m, FALSE)),
              LAMBDA s0 : [s0 EXCEPT !.m.cache = [x \in Regs |-> NoEntry]]),
         LAMBDA s :
           IF s.ret # "ok" THEN s
           ELSE With(regmap_update_bits(s.m, EC_ADDR_CHARGE_CTRL, CHARGE_CTRL_MASK,
                                   d.last_charge_limit),
             LAMBDA c :
               IF c.ret # "ok" THEN c
               ELSE With(regmap_read(c.m, EC_ADDR_SWITCH_STATUS),
                 LAMBDA r :
                   IF r.ret # "ok" THEN [m |-> r.m, ret |-> r.ret]
                   ELSE IF BitAnd(d.last_switch_status, SUPER_KEY_LOCK_STATUS)
                           = BitAnd(r.val, SUPER_KEY_LOCK_STATUS)
                   THEN [m |-> r.m, ret |-> "ok"]
                   ELSE regmap_write_bits(r.m, EC_ADDR_TRIGGER, TRIGGER_SUPER_KEY_LOCK,
                                          TRIGGER_SUPER_KEY_LOCK))))

uniwill_resume(m, d) ==
    With(regcache_sync(regcache_cache_only(m, FALSE)),
         LAMBDA s :
           IF s.ret # "ok" THEN s
           ELSE With(regmap_update_bits(s.m, EC_ADDR_CHARGE_CTRL, CHARGE_CTRL_MASK,
                                   d.last_charge_limit),
             LAMBDA c :
               IF c.ret # "ok" THEN c
               ELSE With(regmap_read(c.m, EC_ADDR_SWITCH_STATUS),
                 LAMBDA r :
                   IF r.ret # "ok" THEN [m |-> r.m, ret |-> r.ret]
                   ELSE IF BitAnd(d.last_switch_status, SUPER_KEY_LOCK_STATUS)
                           = BitAnd(r.val, SUPER_KEY_LOCK_STATUS)
                   THEN [m |-> r.m, ret |-> "ok"]
                   ELSE regmap_write_bits(r.m, EC_ADDR_TRIGGER, TRIGGER_SUPER_KEY_LOCK,
                                          TRIGGER_SUPER_KEY_LOCK))))

----------------------------------------------------------------------------
\* Spec: the bound driver. The device is probed, attributes are stored and
\* shown, the system suspends and resumes, and the EC changes registers by
\* itself: its own flags at any time, the others while the system sleeps.


\* The EC's registers when the driver first sees them
HwBoot ==
    [r \in Regs |->
        CASE r = EC_ADDR_PROJECT_ID -> 12
          [] r = EC_ADDR_LIGHTBAR_AC_CTRL -> LIGHTBAR_WELCOME + LIGHTBAR_S3_OFF
          [] r = EC_ADDR_LIGHTBAR_BAT_CTRL -> LIGHTBAR_APP_EXISTS + LIGHTBAR_S3_OFF
          [] r \in { EC_ADDR_LIGHTBAR_AC_RED, EC_ADDR_LIGHTBAR_BAT_RED } -> 200
          [] r \in { EC_ADDR_LIGHTBAR_AC_GREEN, EC_ADDR_LIGHTBAR_BAT_GREEN } -> 16
          [] r = EC_ADDR_CHARGE_CTRL -> 80
          [] OTHER -> 0]

\* The values the EC may put into a register by itself
EcDomain(r) ==
    CASE r = EC_ADDR_AP_OEM -> { 0, ENABLE_MANUAL_CTRL }
      [] r = EC_ADDR_BIOS_OEM -> { 0, FN_LOCK_STATUS }
      [] r = EC_ADDR_CHARGE_CTRL -> { 80, 80 + CHARGE_CTRL_REACHED, 100 }
      [] r = EC_ADDR_SWITCH_STATUS -> { 0, SUPER_KEY_LOCK_STATUS }
      [] OTHER -> { HwBoot[r] }

Buffers == { "enable", "disable", "bogus" }

\* Firmware writes of value val to address reg among the calls of a log
WritesOf(l, reg, val) ==
    { i \in 1..Len(l) : /\ l[i].operation = OP_WRITE /\ l[i].address = reg
                        /\ l[i].data = val /\ l[i].ret = "ok"
                        /\ l[i].output # Sentinel }

\* Whether a log wrote the non-volatile register r successfully (the writes
\* of a resume to such registers are those of its sync)
SyncedBy(l, r) ==
    /\ r # NoVal
    /\ ~uniwill_volatile_reg(r)
    /\ \E i \in 1..Len(l) : /\ l[i].operation = OP_WRITE /\ l[i].address = r
                            /\ l[i].ret = "ok" /\ l[i].output # Sentinel

\* The first register a log synced, NoVal when it synced none
FirstSynced(l) ==
    IF Len(l) > 0 /\ SyncedBy(l, l[1].address) THEN l[1].address ELSE NoVal

\* Whether a call of the log failed
Failed(e) == e.ret # "ok" \/ e.output = Sentinel

\* The history kept of the current suspend/resume cycle:
\*   phase    "written" after a live store that wrote reg, "suspended" after
\*            the successful suspend that followed it, "resumed" after the
\*            successful resume that followed that, "idle" otherwise
\*   reg, val the register and the byte of that store
\*   n        the successful firmware writes of val to reg since the store
\*   charge   the charge limit field on the EC when the suspend ran
\*   skl      the SUPER_KEY_LOCK_STATUS bit on the EC when the suspend ran
\*   pending  the registers a store changed in the cache while suspended
\*   done     the first register written by a resume whose sync then failed
\*   retry    whether the resume before this one left such a register
\*   redone   whether this resume wrote that register again
\*   after    "resume" after a successful resume; "hit" or "miss" after the
\*            first show that followed, by whether the register had an entry
TrkBoot ==
    [phase |-> "idle", reg |-> NoVal, val |-> NoVal, n |-> 0,
     charge |-> NoVal, skl |-> NoVal, pending |-> {}, done |-> NoVal,
     retry |-> FALSE, redone |-> FALSE, after |-> "none"]

\* What the history forgets once the system is awake and another operation
\* than the resume has run
TrkAwake(t) == [t EXCEPT !.charge = NoVal, !.skl = NoVal, !.pending = {}]

Init ==
    /\ hw \in { [HwBoot EXCEPT ![EC_ADDR_CHARGE_CTRL] = c]
                  : c \in EcDomain(EC_ADDR_CHARGE_CTRL) }
    /\ cache = NoCache
    /\ cache_only = FALSE
    /\ cache_dirty = FALSE
    /\ cache_bypass = FALSE
    /\ last_charge_limit = 0
    /\ last_switch_status = 0
    /\ state = "unbound"
    /\ op = NoOp
    /\ log = << >>
    /\ prev = NoOp
    /\ target = NoVal
    /\ trk = TrkBoot
    /\ super_key_lock = NoVal
    /\ tasks = NoTasks
    /\ chain = << >>
    /\ batteries = << >>

Bound == state \in { "active", "suspended" }

\* A user task is inside super_key_lock_store.
InFlight(t) == tasks[t].pc \notin { "idle", "done" }

\* Mutant: the callbacks of uniwill_pm_ops run whatever the user tasks do.
TasksNeverFrozen == TRUE

\* The PM core's freeze_processes has succeeded: no user task is inside the
\* driver. uniwill_pm_ops is only called in that state.
TasksFrozen == \A t \in Tasks : ~InFlight(t)

\* The device is bound: uniwill_probe on a fresh regmap. A failed probe frees
\* the regmap.
Probe ==
    /\ state = "unbound"
    /\ \E f \in FaultsFor(Calls(uniwill_probe(Machine(NoFault)))) :
        \E r \in { uniwill_probe(Machine(f)) } :
            /\ IF r.ret = "ok"
               THEN Commit(r.m) /\ state' = "active"
               ELSE /\ Commit([r.m EXCEPT !.cache = NoCache, !.cache_dirty = FALSE])
                    /\ state' = "unbound"
            /\ op' = OpRec("probe", NoVal, NoVal, r.ret, NoVal, Len(r.m.log))
    /\ trk' = TrkBoot
    /\ UNCHANGED <<last_charge_limit, last_switch_status, prev, target, super_key_lock, tasks,
                   chain, batteries>>

\* What the history keeps after a store to reg ended as r
TrkStore(r, reg) ==
    LET wrote == { i \in 1..Len(r.m.log) :
                     r.m.log[i].operation = OP_WRITE /\ r.m.log[i].address = reg }
        live == ~cache_only /\ r.ret = "ok" /\ wrote # {}
        t == IF cache_only THEN trk ELSE TrkAwake(trk)
    IN  [t EXCEPT
            !.phase = IF live THEN "written" ELSE "idle",
            !.reg = IF live THEN reg ELSE NoVal,
            !.val = IF live THEN r.m.cache[reg] ELSE NoVal,
            !.n = IF live THEN Cardinality(WritesOf(r.m.log, reg, r.m.cache[reg])) ELSE 0,
            !.pending = IF cache_only /\ r.ret = "ok" /\ r.m.cache[reg] # cache[reg]
                        THEN @ \cup {reg} ELSE @,
            !.done = NoVal, !.retry = FALSE, !.redone = FALSE, !.after = "none"]

\* What the history keeps after a show of reg
TrkShow(reg) ==
    LET t == IF cache_only THEN trk ELSE TrkAwake(trk)
    IN  [t EXCEPT !.phase = "idle", !.reg = NoVal, !.val = NoVal, !.n = 0,
                  !.done = NoVal, !.retry = FALSE, !.redone = FALSE,
                  !.after = IF trk.after # "resume" THEN "none"
                            ELSE IF cache[reg] # NoEntry THEN "hit" ELSE "miss"]

FnLockStore ==
    /\ Bound
    /\ \E buf \in Buffers :
       \E f \in FaultsFor(Calls(fn_lock_store(Machine(NoFault), buf))) :
        \E r \in { fn_lock_store(Machine(f), buf) } :
            /\ Commit(r.m)
            /\ op' = OpRec("fn_lock_store", EC_ADDR_BIOS_OEM, sysfs_match_string(buf),
                           r.ret, NoVal, Len(r.m.log))
            /\ trk' = TrkStore(r, EC_ADDR_BIOS_OEM)
    /\ UNCHANGED <<last_charge_limit, last_switch_status, state, prev, target, super_key_lock, tasks,
                   chain, batteries>>

FnLockShow ==
    /\ Bound
    /\ \E f \in FaultsFor(Calls(fn_lock_show(Machine(NoFault)))) :
        \E r \in { fn_lock_show(Machine(f)) } :
            /\ Commit(r.m)
            /\ op' = OpRec("fn_lock_show", EC_ADDR_BIOS_OEM, NoVal, r.ret,
                           sysfs_match_string(r.out), Len(r.m.log))
            /\ trk' = TrkShow(EC_ADDR_BIOS_OEM)
    /\ UNCHANGED <<last_charge_limit, last_switch_status, state, prev, target, super_key_lock, tasks,
                   chain, batteries>>

\* The system suspends, once the user tasks are frozen: when uniwill_suspend
\* fails the suspend is called off.
Suspend ==
    /\ state = "active"
    /\ TasksFrozen
    /\ \E f \in FaultsFor(Calls(uniwill_suspend(Machine(NoFault), Data))) :
        \E r \in { uniwill_suspend(Machine(f), Data) } :
        LET ok == r.ret = "ok"
            kept == ok /\ trk.phase = "written"
        IN  /\ Commit(r.m)
            /\ last_charge_limit' = r.d.last_charge_limit
            /\ last_switch_status' = r.d.last_switch_status
            /\ state' = IF ok THEN "suspended" ELSE "active"
            /\ op' = OpRec("suspend", NoVal, NoVal, r.ret, NoVal, Len(r.m.log))
            /\ trk' = [trk EXCEPT
                  !.phase = IF kept THEN "suspended" ELSE "idle",
                  !.reg = IF kept THEN @ ELSE NoVal,
                  !.val = IF kept THEN @ ELSE NoVal,
                  !.n = IF kept
                        THEN @ + Cardinality(WritesOf(r.m.log, trk.reg, trk.val))
                        ELSE 0,
                  !.charge = IF ok THEN BitAnd(r.m.hw[EC_ADDR_CHARGE_CTRL], CHARGE_CTRL_MASK)
                             ELSE NoVal,
                  !.skl = IF ok THEN BitAnd(r.m.hw[EC_ADDR_SWITCH_STATUS],
                                            SUPER_KEY_LOCK_STATUS)
                          ELSE NoVal,
                  !.pending = {},
                  !.retry = FALSE,
                  !.redone = FALSE,
                  !.after = "none"]
    /\ UNCHANGED <<prev, target, super_key_lock, tasks,
                   chain, batteries>>

\* The system resumes. The PM core only reports what uniwill_resume returns:
\* the system is awake afterwards either way.
Resume ==
    /\ state = "suspended"
    /\ \E f \in FaultsFor(Calls(uniwill_resume(Machine(NoFault), Data))) :
        \E r \in { uniwill_resume(Machine(f), Data) } :
        LET ok == r.ret = "ok"
        IN  /\ Commit(r.m)
            /\ state' = "active"
            /\ op' = OpRec("resume", NoVal, NoVal, r.ret, NoVal, Len(r.m.log))
            /\ trk' = [trk EXCEPT
                  !.phase = IF ok /\ @ = "suspended" THEN "resumed" ELSE "idle",
                  !.n = IF ok /\ trk.phase = "suspended"
                        THEN @ + Cardinality(WritesOf(r.m.log, trk.reg, trk.val))
                        ELSE 0,
                  !.done = IF r.m.cache_dirty THEN FirstSynced(r.m.log) ELSE NoVal,
                  !.retry = trk.done # NoVal,
                  !.redone = SyncedBy(r.m.log, trk.done),
                  !.after = IF ok THEN "resume" ELSE "none"]
    /\ UNCHANGED <<last_charge_limit, last_switch_status, prev, target, super_key_lock, tasks,
                   chain, batteries>>

\* The EC changes a register it owns: the charge-limit-reached flag and the
\* super key lock status (toggled from the keyboard) at any time, the charge
\* limit itself while the system sleeps.
EcEvent ==
    /\ \E r \in { EC_ADDR_CHARGE_CTRL, EC_ADDR_SWITCH_STATUS } :
       \E b \in EcDomain(r) :
        /\ b # hw[r]
        /\ (r = EC_ADDR_CHARGE_CTRL /\ state # "suspended")
             => BitAnd(b, CHARGE_CTRL_MASK) = BitAnd(hw[r], CHARGE_CTRL_MASK)
        /\ hw' = [hw EXCEPT ![r] = b]
        /\ op' = OpRec("ec", r, b, "ok", NoVal, 0)
    /\ log' = << >>
    /\ trk' = IF state = "suspended" THEN trk ELSE TrkAwake(trk)
    /\ UNCHANGED <<cache, cache_only, cache_dirty, cache_bypass, last_charge_limit,
                   last_switch_status, state, prev, target, super_key_lock, tasks,
                   chain, batteries>>

\* While the system sleeps the EC loses power: every register the map caches
\* is back at the value it had at boot.
EcPowerLoss ==
    /\ state = "suspended"
    /\ hw' = [r \in Regs |-> IF uniwill_volatile_reg(r) THEN hw[r] ELSE HwBoot[r]]
    /\ hw' # hw
    /\ op' = OpRec("ec", NoVal, NoVal, "ok", NoVal, 0)
    /\ log' = << >>
    /\ UNCHANGED <<cache, cache_only, cache_dirty, cache_bypass, last_charge_limit,
                   last_switch_status, state, prev, target, super_key_lock, tasks,
                   chain, batteries, trk>>

Next ==
    \/ Probe
    \/ FnLockStore \/ FnLockShow
    \/ Suspend \/ Resume
    \/ EcEvent \/ EcPowerLoss

Spec == Init /\ [][Next]_vars

----------------------------------------------------------------------------
\* SpecToggle: user tasks writing the super_key_lock attribute at the same
\* time. A call of
\* super_key_lock_store is a sequence of steps (the mutex, the status read,
\* the comparison, the trigger write); each map operation is one step, as the
\* map's own lock makes it. The PM core calls uniwill_suspend only when every
\* user task is frozen: it waits for the calls in flight to return and lets no
\* new call begin until uniwill_resume has returned.

\* C's operator !
LogicalNot(x) == IF x = 0 THEN 1 ELSE 0

\* guard(mutex) leaving its scope
mutex_unlock(holder, t) == IF holder = t THEN NoVal ELSE holder

\* super_key_lock_store, lines 595-597: the string is matched
\* A step of a task: the map and the EC as the step left them. The calls of a
\* step are not kept in log (the task's record keeps what the claims need).
CommitStep(m) ==
    /\ hw' = m.hw
    /\ cache' = m.cache
    /\ cache_only' = m.cache_only
    /\ cache_dirty' = m.cache_dirty
    /\ cache_bypass' = m.cache_bypass
    /\ log' = << >>

StepOp == OpRec("super_key_lock_store", NoVal, NoVal, "ok", NoVal, 0)

SuperKeyLockStoreEnter(t) ==
    /\ state = "active"
    /\ tasks[t].pc = "idle"
    /\ \E buf \in Buffers :
        LET ret == sysfs_match_string(buf)
        IN  /\ tasks' = [tasks EXCEPT ![t] =
                    IF ret < 0
                    THEN [@ EXCEPT !.pc = "done", !.buf = buf, !.ret = "EINVAL"]
                    ELSE [@ EXCEPT !.pc = "lock", !.buf = buf, !.ret = ret]]
            /\ op' = StepOp
    /\ log' = << >>
    /\ UNCHANGED <<hw, cache, cache_only, cache_dirty, cache_bypass,
                   last_charge_limit, last_switch_status, state, prev, target,
                   trk, super_key_lock, chain, batteries>>

\* line 599: guard(mutex)(&data->super_key_lock)
SuperKeyLockStoreLock(t) ==
    /\ tasks[t].pc = "lock"
    /\ super_key_lock = NoVal
    /\ super_key_lock' = t
    /\ tasks' = [tasks EXCEPT ![t].pc = "read"]
    /\ op' = StepOp
    /\ log' = << >>
    /\ UNCHANGED <<hw, cache, cache_only, cache_dirty, cache_bypass,
                   last_charge_limit, last_switch_status, state, prev, target,
                   trk, chain, batteries>>

\* lines 601-603: the status is read into value, the result into ret
SuperKeyLockStoreRead(t) ==
    /\ tasks[t].pc = "read"
    /\ \E f \in FaultsFor(1) :
        \E r \in { regmap_read(Machine(f), EC_ADDR_SWITCH_STATUS) } :
            /\ CommitStep(r.m)
            /\ tasks' = [tasks EXCEPT ![t] =
                    IF r.ret # "ok"
                    THEN [@ EXCEPT !.pc = "done", !.ret = r.ret]
                    ELSE [@ EXCEPT !.pc = "compare", !.ret = 0, !.value = r.val]]
            /\ super_key_lock' = IF r.ret # "ok" THEN mutex_unlock(super_key_lock, t)
                                 ELSE super_key_lock
            /\ op' = StepOp
    /\ UNCHANGED <<last_charge_limit, last_switch_status, state, prev, target,
                   trk, chain, batteries>>

\* lines 609-610: ret is compared with the negated status bit
SuperKeyLockStoreCompare(t) ==
    /\ tasks[t].pc = "compare"
    /\ LET same == tasks[t].ret
                     = LogicalNot(BitAnd(tasks[t].value, SUPER_KEY_LOCK_STATUS))
       IN  /\ tasks' = [tasks EXCEPT ![t] =
                    IF same THEN [@ EXCEPT !.pc = "done", !.ret = "ok"]
                    ELSE [@ EXCEPT !.pc = "write"]]
           /\ super_key_lock' = IF same THEN mutex_unlock(super_key_lock, t)
                                ELSE super_key_lock
    /\ op' = StepOp
    /\ log' = << >>
    /\ UNCHANGED <<hw, cache, cache_only, cache_dirty, cache_bypass,
                   last_charge_limit, last_switch_status, state, prev, target,
                   trk, chain, batteries>>

\* lines 612-617: the trigger is written and the call returns
SuperKeyLockStoreWrite(t) ==
    /\ tasks[t].pc = "write"
    /\ \E f \in FaultsFor(2) :
        \E r \in { regmap_write_bits(Machine(f), EC_ADDR_TRIGGER,
                                     TRIGGER_SUPER_KEY_LOCK, TRIGGER_SUPER_KEY_LOCK) } :
        LET wrote == { i \in 1..Len(r.m.log) :
                         /\ r.m.log[i].operation = OP_WRITE
                         /\ r.m.log[i].address = EC_ADDR_TRIGGER }
        IN  /\ CommitStep(r.m)
            /\ tasks' = [tasks EXCEPT ![t] =
                    [@ EXCEPT !.pc = "done", !.ret = r.ret,
                              !.fired = Cardinality(wrote),
                              !.stale = /\ wrote # {}
                                        /\ BitAnd(hw[EC_ADDR_SWITCH_STATUS],
                                                  SUPER_KEY_LOCK_STATUS)
                                             # BitAnd(tasks[t].value,
                                                      SUPER_KEY_LOCK_STATUS)]]
            /\ op' = StepOp
    /\ super_key_lock' = mutex_unlock(super_key_lock, t)
    /\ UNCHANGED <<last_charge_limit, last_switch_status, state, prev, target,
                   trk, chain, batteries>>

\* While the system sleeps the EC forgets the super key lock (the reason
\* uniwill_resume restores it).
EcForgetsSwitch ==
    /\ state = "suspended"
    /\ \E b \in EcDomain(EC_ADDR_SWITCH_STATUS) :
        /\ b # hw[EC_ADDR_SWITCH_STATUS]
        /\ hw' = [hw EXCEPT ![EC_ADDR_SWITCH_STATUS] = b]
        /\ op' = OpRec("ec", EC_ADDR_SWITCH_STATUS, b, "ok", NoVal, 0)
    /\ log' = << >>
    /\ UNCHANGED <<cache, cache_only, cache_dirty, cache_bypass, last_charge_limit,
                   last_switch_status, state, prev, target, trk, super_key_lock,
                   tasks, chain, batteries>>

\* One step of task t inside super_key_lock_store
SuperKeyLockStore(t) ==
    \/ SuperKeyLockStoreEnter(t)
    \/ SuperKeyLockStoreLock(t)
    \/ SuperKeyLockStoreRead(t)
    \/ SuperKeyLockStoreCompare(t)
    \/ SuperKeyLockStoreWrite(t)

InitToggle ==
    /\ hw \in { [HwBoot EXCEPT ![EC_ADDR_SWITCH_STATUS] = b]
                  : b \in EcDomain(EC_ADDR_SWITCH_STATUS) }
    /\ cache = NoCache
    /\ cache_only = FALSE
    /\ cache_dirty = FALSE
    /\ cache_bypass = FALSE
    /\ last_charge_limit = 0
    /\ last_switch_status = 0
    /\ state = "unbound"
    /\ op = NoOp
    /\ log = << >>
    /\ prev = NoOp
    /\ target = NoVal
    /\ trk = TrkBoot
    /\ super_key_lock = NoVal
    /\ tasks = NoTasks
    /\ chain = << >>
    /\ batteries = << >>

NextToggle ==
    \/ Probe
    \/ \E t \in Tasks : SuperKeyLockStore(t)

SpecToggle == InitToggle /\ [][NextToggle]_vars

\* The task is back in user space: nothing is kept of the call.
SuperKeyLockStoreReturn(t) ==
    /\ tasks[t].pc = "done"
    /\ tasks' = [tasks EXCEPT ![t] = NoTask]
    /\ op' = StepOp
    /\ log' = << >>
    /\ UNCHANGED <<hw, cache, cache_only, cache_dirty, cache_bypass,
                   last_charge_limit, last_switch_status, state, prev, target,
                   trk, super_key_lock, chain, batteries>>

\* SpecPm: the system suspending and resuming around the calls of
\* super_key_lock_store, any number of them, one user task in the driver at a
\* time.
NextPm ==
    \/ Probe
    \/ Suspend \/ Resume
    \/ EcForgetsSwitch
    \/ \E t \in Tasks :
        /\ \A u \in Tasks \ {t} : tasks[u].pc = "idle"
        /\ (SuperKeyLockStore(t) \/ SuperKeyLockStoreReturn(t))

SpecPm == InitToggle /\ [][NextPm]_vars

----------------------------------------------------------------------------
\* SpecLed: the lightbar. Init draws what the EC holds in the two banks when
\* the driver binds; uniwill_probe runs uniwill_led_init, and the LED core then
\* calls uniwill_led_brightness_set with any brightness and intensities.

\* Control bytes of a bank: LIGHTBAR_POWER_SAVE alone, the light off
\* with the welcome animation, every bit set
LedCtrlSamples == { LIGHTBAR_POWER_SAVE, LIGHTBAR_S0_OFF + LIGHTBAR_WELCOME }

\* What the LED core passes: brightness 0..max_brightness, and for every
\* channel an intensity (multi_intensity takes any unsigned int)
LedBrightness == { 0, U8_MAX }
LedIntensity == { << 300, 16, 0 >> }

InitLed ==
    /\ \E ac, bat \in LedCtrlSamples : \E c \in { 7 } :
        hw = [HwBoot EXCEPT ![EC_ADDR_LIGHTBAR_AC_CTRL] = ac,
                            ![EC_ADDR_LIGHTBAR_BAT_CTRL] = bat,
                            ![EC_ADDR_LIGHTBAR_BAT_RED] = c,
                            ![EC_ADDR_LIGHTBAR_BAT_GREEN] = c,
                            ![EC_ADDR_LIGHTBAR_BAT_BLUE] = c]
    /\ cache = NoCache
    /\ cache_only = FALSE
    /\ cache_dirty = FALSE
    /\ cache_bypass = FALSE
    /\ last_charge_limit = 0
    /\ last_switch_status = 0
    /\ state = "unbound"
    /\ op = NoOp
    /\ log = << >>
    /\ prev = NoOp
    /\ target = NoVal
    /\ trk = TrkBoot
    /\ super_key_lock = NoVal
    /\ tasks = NoTasks
    /\ chain = << >>
    /\ batteries = << >>

LedBrightnessSet ==
    /\ state = "active"
    /\ \E brightness \in LedBrightness :
       \E intensity \in LedIntensity :
       \E f \in FaultsFor(Calls(uniwill_led_brightness_set(Machine(NoFault),
                                                           brightness, intensity))) :
        \E r \in { uniwill_led_brightness_set(Machine(f), brightness, intensity) } :
            /\ Commit(r.m)
            /\ op' = OpRec("led_brightness_set", NoVal, brightness, r.ret, NoVal,
                           Len(r.m.log))
    /\ UNCHANGED <<last_charge_limit, last_switch_status, state, prev, target,
                   trk, super_key_lock, tasks, chain, batteries>>

NextLed == Probe \/ LedBrightnessSet

SpecLed == InitLed /\ [][NextLed]_vars

----------------------------------------------------------------------------
\* SpecBat: the battery extension. The power supply core calls
\* uniwill_get_property and uniwill_set_property on the bound driver; the EC
\* sets and clears the charge-limit-reached flag by itself. After a
\* uniwill_get_property, prev is the uniwill_set_property that ran right before
\* it, if one did.

\* Thresholds written to charge_control_end_threshold (an int)
Thresholds == { 0 - 1, 0, 1, 50, 100, 101, 150 }

Properties == { "HEALTH", "CHARGE_CONTROL_END_THRESHOLD", "OTHER" }

\* Answers of the battery's own driver
BatAnswer(present_ret, present, status_ret, status) ==
    [present_ret |-> present_ret, present |-> present,
     status_ret |-> status_ret, status |-> status]

BatAnswers ==
    { BatAnswer("ok", 0, "ok", "CHARGING"), BatAnswer("ok", 1, "ok", "CHARGING"),
      BatAnswer("ok", 1, "ok", "UNKNOWN"), BatAnswer("ENODEV", 0, "ok", "UNKNOWN"),
      BatAnswer("ok", 1, "ENODEV", "UNKNOWN") }

BatSetProperty ==
    /\ state = "active"
    /\ \E psp \in Properties : \E intval \in Thresholds :
       \E f \in FaultsFor(Calls(uniwill_set_property(Machine(NoFault), psp, intval))) :
        \E r \in { uniwill_set_property(Machine(f), psp, intval) } :
            /\ Commit(r.m)
            /\ op' = OpRec("set_property", psp, intval, r.ret, NoVal, Len(r.m.log))
    /\ prev' = NoOp
    /\ UNCHANGED <<last_charge_limit, last_switch_status, state, target, trk,
                   super_key_lock, tasks, chain, batteries>>

BatGetProperty ==
    /\ state = "active"
    /\ \E psp \in Properties :
       \E bat \in IF psp = "HEALTH" THEN BatAnswers
                   ELSE { BatAnswer("ok", 1, "ok", "CHARGING") } :
       \E f \in FaultsFor(Calls(uniwill_get_property(Machine(NoFault), psp, bat))) :
        \E r \in { uniwill_get_property(Machine(f), psp, bat) } :
            /\ Commit(r.m)
            /\ op' = OpRec("get_property", psp, NoVal, r.ret, r.val, Len(r.m.log))
    /\ prev' = IF op.name = "set_property" THEN op ELSE NoOp
    /\ UNCHANGED <<last_charge_limit, last_switch_status, state, target, trk,
                   super_key_lock, tasks, chain, batteries>>

\* The EC sets or clears CHARGE_CTRL_REACHED, or raises or clears the battery
\* alert.
EcBattery ==
    /\ \E r \in { EC_ADDR_CHARGE_CTRL, EC_ADDR_BAT_ALERT } :
        /\ hw' = [hw EXCEPT ![r] =
                    IF r = EC_ADDR_BAT_ALERT THEN LogicalNot(@)
                    ELSE IF BitAnd(@, CHARGE_CTRL_REACHED) = 0
                    THEN @ + CHARGE_CTRL_REACHED ELSE @ - CHARGE_CTRL_REACHED]
        /\ op' = OpRec("ec", r, hw'[r], "ok", NoVal, 0)
    /\ log' = << >>
    /\ prev' = NoOp
    /\ UNCHANGED <<cache, cache_only, cache_dirty, cache_bypass, last_charge_limit,
                   last_switch_status, state, target, trk, super_key_lock,
                   tasks, chain, batteries>>

NextBat == Probe \/ BatSetProperty \/ BatGetProperty \/ EcBattery

SpecBat == Init /\ [][NextBat]_vars

----------------------------------------------------------------------------
\* SpecHwmon: the sensors. The hwmon core calls uniwill_read on the bound
\* driver for any type and channel; the EC changes what the sensors of
\* channel 0 read.

SensorTypes == { "temp", "fan", "pwm", "other" }
SensorChannels == { 0, 1, 2 }

\* What an uninitialized unsigned int may hold
Uninit == { 0, 65536 }

\* The sensor registers the EC changes in the model
Ch0Sensors ==
    { EC_ADDR_CPU_TEMP, EC_ADDR_MAIN_FAN_RPM_2, EC_ADDR_PWM_1 }

InitHwmon ==
    /\ hw = [HwBoot EXCEPT ![EC_ADDR_CPU_TEMP] = 47, ![EC_ADDR_GPU_TEMP] = 45,
                           ![EC_ADDR_MAIN_FAN_RPM_1] = 8, ![EC_ADDR_MAIN_FAN_RPM_2] = 152,
                           ![EC_ADDR_SECOND_FAN_RPM_1] = 11, ![EC_ADDR_SECOND_FAN_RPM_2] = 184,
                           ![EC_ADDR_PWM_1] = 100, ![EC_ADDR_PWM_2] = PWM_MAX]
    /\ cache = NoCache
    /\ cache_only = FALSE
    /\ cache_dirty = FALSE
    /\ cache_bypass = FALSE
    /\ last_charge_limit = 0
    /\ last_switch_status = 0
    /\ state = "unbound"
    /\ op = NoOp
    /\ log = << >>
    /\ prev = NoOp
    /\ target = NoVal
    /\ trk = TrkBoot
    /\ super_key_lock = NoVal
    /\ tasks = NoTasks
    /\ chain = << >>
    /\ batteries = << >>

HwmonRead ==
    /\ state = "active"
    /\ \E type \in SensorTypes : \E channel \in SensorChannels : \E uninit \in Uninit :
       \E f \in FaultsFor(Calls(uniwill_read(Machine(NoFault), type, channel, uninit))) :
        \E r \in { uniwill_read(Machine(f), type, channel, uninit) } :
            /\ Commit(r.m)
            /\ op' = OpRec("read_sensor", type, channel, r.ret, r.val, Len(r.m.log))
    /\ UNCHANGED <<last_charge_limit, last_switch_status, state, prev, target, trk,
                   super_key_lock, tasks, chain, batteries>>

EcSensors ==
    /\ \E r \in Ch0Sensors : \E b \in Bytes :
        /\ b # hw[r]
        /\ hw' = [hw EXCEPT ![r] = b]
        /\ op' = OpRec("ec", r, b, "ok", NoVal, 0)
    /\ log' = << >>
    /\ UNCHANGED <<cache, cache_only, cache_dirty, cache_bypass, last_charge_limit,
                   last_switch_status, state, prev, target, trk, super_key_lock,
                   tasks, chain, batteries>>

NextHwmon == Probe \/ HwmonRead \/ EcSensors

SpecHwmon == InitHwmon /\ [][NextHwmon]_vars

----------------------------------------------------------------------------
\* SpecPwm: the pwm sensors over the whole byte. The EC holds any byte in
\* EC_ADDR_PWM_1; EC_ADDR_PWM_2 holds PWM_MAX; the hwmon core calls uniwill_read.

InitPwm ==
    /\ \E raw \in 0..U8_MAX :
        hw = [HwBoot EXCEPT ![EC_ADDR_PWM_1] = raw, ![EC_ADDR_PWM_2] = PWM_MAX]
    /\ cache = NoCache
    /\ cache_only = FALSE
    /\ cache_dirty = FALSE
    /\ cache_bypass = FALSE
    /\ last_charge_limit = 0
    /\ last_switch_status = 0
    /\ state = "unbound"
    /\ op = NoOp
    /\ log = << >>
    /\ prev = NoOp
    /\ target = NoVal
    /\ trk = TrkBoot
    /\ super_key_lock = NoVal
    /\ tasks = NoTasks
    /\ chain = << >>
    /\ batteries = << >>

NextPwm == Probe \/ HwmonRead

SpecPwm == InitPwm /\ [][NextPwm]_vars

----------------------------------------------------------------------------
\* SpecAttr: the two attributes that are one bit of a cached register each,
\* fn_lock (FN_LOCK_STATUS of EC_ADDR_BIOS_OEM) and touchpad_toggle
\* (TOUCHPAD_TOGGLE_OFF of EC_ADDR_OEM_4), with suspend and resume. The EC
\* boots with either bit clear, or set next to a bit the driver leaves alone.
\* The attributes are written and read by user tasks, which are frozen while
\* the system sleeps.

AttrBoot(bit) == { 0, bit + 1 }

InitAttr ==
    /\ \E b \in AttrBoot(FN_LOCK_STATUS), o \in AttrBoot(TOUCHPAD_TOGGLE_OFF) :
        hw = [HwBoot EXCEPT ![EC_ADDR_BIOS_OEM] = b, ![EC_ADDR_OEM_4] = o]
    /\ cache = NoCache
    /\ cache_only = FALSE
    /\ cache_dirty = FALSE
    /\ cache_bypass = FALSE
    /\ last_charge_limit = 0
    /\ last_switch_status = 0
    /\ state = "unbound"
    /\ op = NoOp
    /\ log = << >>
    /\ prev = NoOp
    /\ target = NoVal
    /\ trk = TrkBoot
    /\ super_key_lock = NoVal
    /\ tasks = NoTasks
    /\ chain = << >>
    /\ batteries = << >>

AttrUnchanged ==
    UNCHANGED <<last_charge_limit, last_switch_status, state, prev, target, trk,
                super_key_lock, tasks, chain, batteries>>

AttrFnLockStore ==
    /\ state = "active"
    /\ \E buf \in Buffers :
       \E f \in FaultsFor(Calls(fn_lock_store(Machine(NoFault), buf))) :
        \E r \in { fn_lock_store(Machine(f), buf) } :
            /\ Commit(r.m)
            /\ op' = OpRec("fn_lock_store", EC_ADDR_BIOS_OEM, sysfs_match_string(buf),
                           r.ret, NoVal, Len(r.m.log))
    /\ AttrUnchanged

AttrFnLockShow ==
    /\ state = "active"
    /\ \E f \in FaultsFor(Calls(fn_lock_show(Machine(NoFault)))) :
        \E r \in { fn_lock_show(Machine(f)) } :
            /\ Commit(r.m)
            /\ op' = OpRec("fn_lock_show", EC_ADDR_BIOS_OEM, NoVal, r.ret,
                           sysfs_match_string(r.out), Len(r.m.log))
    /\ AttrUnchanged

TouchpadToggleStore ==
    /\ state = "active"
    /\ \E buf \in Buffers :
       \E f \in FaultsFor(Calls(touchpad_toggle_store(Machine(NoFault), buf))) :
        \E r \in { touchpad_toggle_store(Machine(f), buf) } :
            /\ Commit(r.m)
            /\ op' = OpRec("touchpad_toggle_store", EC_ADDR_OEM_4,
                           sysfs_match_string(buf), r.ret, NoVal, Len(r.m.log))
    /\ AttrUnchanged

TouchpadToggleShow ==
    /\ state = "active"
    /\ \E f \in FaultsFor(Calls(touchpad_toggle_show(Machine(NoFault)))) :
        \E r \in { touchpad_toggle_show(Machine(f)) } :
            /\ Commit(r.m)
            /\ op' = OpRec("touchpad_toggle_show", EC_ADDR_OEM_4, NoVal, r.ret,
                           sysfs_match_string(r.out), Len(r.m.log))
    /\ AttrUnchanged

NextAttr ==
    \/ Probe
    \/ AttrFnLockStore \/ AttrFnLockShow
    \/ TouchpadToggleStore \/ TouchpadToggleShow
    \/ Suspend \/ Resume
    \/ EcPowerLoss

SpecAttr == InitAttr /\ [][NextAttr]_vars

----------------------------------------------------------------------------
\* SpecWmi: the WMI event driver (uniwill-wmi.c). Observers register on
\* uniwill_wmi_chain_head and unregister from it; the firmware delivers events
\* to uniwill_wmi_notify. In SpecWmi, log holds the observer calls of the last
\* event, in order: the observer, the action and the data it was given and
\* what it returned.

UNIWILL_KEY_CAPSLOCK == 1
UNIWILL_OSD_RADIOON == 26

\* What a notifier callback may return; NOTIFY_STOP and NOTIFY_BAD carry
\* NOTIFY_STOP_MASK.
NotifyResults == { "NOTIFY_DONE", "NOTIFY_OK", "NOTIFY_STOP", "NOTIFY_BAD" }
NOTIFY_STOP_MASK(ret) == ret \in { "NOTIFY_STOP", "NOTIFY_BAD" }

Observers == 1..NObservers

\* notifier_block.priority of an observer
Priority(nb) == nb % 2

SeqHas(q, x) == \E i \in 1..Len(q) : q[i] = x

\* notifier_chain_register: nb goes before the first block of lower priority;
\* a block that is registered already is refused.
blocking_notifier_chain_register(nl, nb) ==
    IF SeqHas(nl, nb) THEN [chain |-> nl, ret |-> "EEXIST"]
    ELSE LET before == { i \in 1..Len(nl) : Priority(nb) > Priority(nl[i]) }
             k == IF before = {} THEN Len(nl) + 1
                  ELSE CHOOSE i \in before : \A j \in before : i <= j
         IN  [chain |-> SubSeq(nl, 1, k - 1) \o << nb >> \o SubSeq(nl, k, Len(nl)),
              ret |-> "ok"]

\* notifier_chain_unregister
blocking_notifier_chain_unregister(nl, nb) ==
    IF ~SeqHas(nl, nb) THEN [chain |-> nl, ret |-> "ENOENT"]
    ELSE [chain |-> SelectSeq(nl, LAMBDA x : x # nb), ret |-> "ok"]

uniwill_wmi_register_notifier(nl, nb) == blocking_notifier_chain_register(nl, nb)
uniwill_wmi_unregister_notifier(nl, nb) == blocking_notifier_chain_unregister(nl, nb)

\* notifier_call_chain from block i on: every block is called with the action
\* and the data, until one returns a result with NOTIFY_STOP_MASK. answers[i]
\* is what block i of the chain returns this time. The result is the last
\* block's, NOTIFY_DONE for an empty chain.
RECURSIVE notifier_call_chain(_, _, _, _, _, _)
notifier_call_chain(nl, answers, action, data, i, calls) ==
    IF i > Len(nl)
    THEN [calls |-> calls,
          ret |-> IF calls = << >> THEN "NOTIFY_DONE" ELSE calls[Len(calls)].ret]
    ELSE LET call == [observer |-> nl[i], action |-> action, data |-> data,
                      ret |-> answers[i]]
         IN  IF NOTIFY_STOP_MASK(answers[i])
             THEN [calls |-> Append(calls, call), ret |-> answers[i]]
             ELSE notifier_call_chain(nl, answers, action, data, i + 1,
                                      Append(calls, call))

blocking_notifier_call_chain(nl, answers, action, data) ==
    notifier_call_chain(nl, answers, action, data, 1, << >>)

\* Mutant: the event is withheld after any result with NOTIFY_STOP_MASK.
uniwill_wmi_notify_stopmask(nl, obj, answers) ==
    IF obj.type # "ACPI_TYPE_INTEGER"
    THEN [calls |-> << >>, ret |-> "NOTIFY_DONE", reported |-> NoVal]
    ELSE With(blocking_notifier_call_chain(nl, answers, 0, obj.value),
              LAMBDA r :
                IF NOTIFY_STOP_MASK(r.ret)
                THEN [calls |-> r.calls, ret |-> r.ret, reported |-> NoVal]
                ELSE [calls |-> r.calls, ret |-> r.ret, reported |-> obj.value])

\* uniwill_wmi_notify: reported is the code given to
\* sparse_keymap_report_event, NoVal when it is not called.
uniwill_wmi_notify(nl, obj, answers) ==
    IF obj.type # "ACPI_TYPE_INTEGER"
    THEN [calls |-> << >>, ret |-> "NOTIFY_DONE", reported |-> NoVal]
    ELSE With(blocking_notifier_call_chain(nl, answers, 0, obj.value),
              LAMBDA r :
                IF r.ret = "NOTIFY_BAD"
                THEN [calls |-> r.calls, ret |-> r.ret, reported |-> NoVal]
                ELSE [calls |-> r.calls, ret |-> r.ret, reported |-> obj.value])

\* What the firmware passes to uniwill_wmi_notify
AcpiObjects ==
    { [type |-> "ACPI_TYPE_INTEGER", value |-> UNIWILL_KEY_CAPSLOCK],
      [type |-> "ACPI_TYPE_INTEGER", value |-> UNIWILL_OSD_RADIOON],
      [type |-> "ACPI_TYPE_BUFFER", value |-> 0] }

InitWmi ==
    /\ hw = HwBoot
    /\ cache = NoCache
    /\ cache_only = FALSE
    /\ cache_dirty = FALSE
    /\ cache_bypass = FALSE
    /\ last_charge_limit = 0
    /\ last_switch_status = 0
    /\ state = "unbound"
    /\ op = NoOp
    /\ log = << >>
    /\ prev = NoOp
    /\ target = NoVal
    /\ trk = TrkBoot
    /\ super_key_lock = NoVal
    /\ tasks = NoTasks
    /\ chain = << >>
    /\ batteries = << >>

WmiUnchanged ==
    UNCHANGED <<hw, cache, cache_only, cache_dirty, cache_bypass, last_charge_limit,
                last_switch_status, state, prev, target, trk, super_key_lock, tasks,
                batteries>>

WmiRegisterNotifier ==
    /\ \E nb \in Observers :
        \E r \in { uniwill_wmi_register_notifier(chain, nb) } :
            /\ chain' = r.chain
            /\ op' = OpRec("register_notifier", NoVal, nb, r.ret, NoVal, 0)
    /\ log' = << >>
    /\ WmiUnchanged

WmiUnregisterNotifier ==
    /\ \E nb \in Observers :
        \E r \in { uniwill_wmi_unregister_notifier(chain, nb) } :
            /\ chain' = r.chain
            /\ op' = OpRec("unregister_notifier", NoVal, nb, r.ret, NoVal, 0)
    /\ log' = << >>
    /\ WmiUnchanged

WmiNotify ==
    /\ \E obj \in AcpiObjects : \E answers \in [1..Len(chain) -> NotifyResults] :
        \E r \in { uniwill_wmi_notify(chain, obj, answers) } :
            /\ log' = r.calls
            /\ op' = OpRec("wmi_notify", obj.type, obj.value, r.ret, r.reported,
                           Len(r.calls))
    /\ UNCHANGED chain
    /\ WmiUnchanged

NextWmi == WmiRegisterNotifier \/ WmiUnregisterNotifier \/ WmiNotify

SpecWmi == InitWmi /\ [][NextWmi]_vars

----------------------------------------------------------------------------
\* SpecCharge: the charge limit over suspend and resume. The EC boots with any
\* of ChargeBytes in EC_ADDR_CHARGE_CTRL (the limit field may be 0 or above
\* 100, as the firmware or another system left it) and may change the register
\* while the system sleeps; the power supply core sets the threshold.

ChargeBytes == { 0, 60, 120, 60 + CHARGE_CTRL_REACHED }

\* Thresholds written to charge_control_end_threshold in SpecCharge
ChargeThresholds == { 0, 1, 100, 101 }

InitCharge ==
    /\ \E c \in ChargeBytes : hw = [HwBoot EXCEPT ![EC_ADDR_CHARGE_CTRL] = c]
    /\ cache = NoCache
    /\ cache_only = FALSE
    /\ cache_dirty = FALSE
    /\ cache_bypass = FALSE
    /\ last_charge_limit = 0
    /\ last_switch_status = 0
    /\ state = "unbound"
    /\ op = NoOp
    /\ log = << >>
    /\ prev = NoOp
    /\ target = NoVal
    /\ trk = TrkBoot
    /\ super_key_lock = NoVal
    /\ tasks = NoTasks
    /\ chain = << >>
    /\ batteries = << >>

ChargeSetProperty ==
    /\ state = "active"
    /\ \E intval \in ChargeThresholds :
       \E f \in FaultsFor(Calls(uniwill_set_property(Machine(NoFault),
                                    "CHARGE_CONTROL_END_THRESHOLD", intval))) :
        \E r \in { uniwill_set_property(Machine(f), "CHARGE_CONTROL_END_THRESHOLD",
                                        intval) } :
            /\ Commit(r.m)
            /\ op' = OpRec("set_property", "CHARGE_CONTROL_END_THRESHOLD", intval,
                           r.ret, NoVal, Len(r.m.log))
    /\ trk' = TrkAwake(trk)
    /\ UNCHANGED <<last_charge_limit, last_switch_status, state, prev, target,
                   super_key_lock, tasks, chain, batteries>>

\* While the system sleeps the EC's charge control register changes.
EcChargeLimit ==
    /\ state = "suspended"
    /\ \E b \in ChargeBytes :
        /\ b # hw[EC_ADDR_CHARGE_CTRL]
        /\ hw' = [hw EXCEPT ![EC_ADDR_CHARGE_CTRL] = b]
        /\ op' = OpRec("ec", EC_ADDR_CHARGE_CTRL, b, "ok", NoVal, 0)
    /\ log' = << >>
    /\ UNCHANGED <<cache, cache_only, cache_dirty, cache_bypass, last_charge_limit,
                   last_switch_status, state, prev, target, trk, super_key_lock,
                   tasks, chain, batteries>>

NextCharge == Probe \/ ChargeSetProperty \/ Suspend \/ Resume \/ EcChargeLimit

SpecCharge == InitCharge /\ [][NextCharge]_vars

----------------------------------------------------------------------------
\* SpecLife: the driver's lifecycle. The device is probed, with any of the
\* registrations failing, detached and probed again, and the system shuts
\* down. The EC boots with or without ENABLE_MANUAL_CTRL, next to a bit of
\* EC_ADDR_AP_OEM the driver leaves alone. After a shutdown nothing runs.

ApOemBoot == { 0, ENABLE_MANUAL_CTRL, ENABLE_MANUAL_CTRL + ENABLE_MANUAL_CTRL,
               ENABLE_MANUAL_CTRL + ENABLE_MANUAL_CTRL + ENABLE_MANUAL_CTRL }

InitLife ==
    /\ \E b \in ApOemBoot : hw = [HwBoot EXCEPT ![EC_ADDR_AP_OEM] = b]
    /\ cache = NoCache
    /\ cache_only = FALSE
    /\ cache_dirty = FALSE
    /\ cache_bypass = FALSE
    /\ last_charge_limit = 0
    /\ last_switch_status = 0
    /\ state = "unbound"
    /\ op = NoOp
    /\ log = << >>
    /\ prev = NoOp
    /\ target = NoVal
    /\ trk = TrkBoot
    /\ super_key_lock = NoVal
    /\ tasks = NoTasks
    /\ chain = << >>
    /\ batteries = << >>

LifeUnchanged ==
    UNCHANGED <<last_charge_limit, last_switch_status, prev, target, trk,
                super_key_lock, tasks, chain, batteries>>

\* The regmap is freed with the device's other resources.
Freed(m) == [m EXCEPT !.cache = NoCache, !.cache_dirty = FALSE]

LifeProbe ==
    /\ state = "unbound"
    /\ \E failing \in ProbeSteps :
       \E f \in FaultsFor(Calls(uniwill_probe_failing(Machine(NoFault), failing))) :
        \E r \in { uniwill_probe_failing(Machine(f), failing) } :
            /\ IF r.ret = "ok"
               THEN Commit(r.m) /\ state' = "active"
               ELSE Commit(Freed(r.m)) /\ state' = "unbound"
            /\ op' = OpRec("probe", r.step, NoVal, r.ret, NoVal, Len(r.m.log))
    /\ LifeUnchanged

LifeDetach ==
    /\ state = "active"
    /\ \E f \in FaultsFor(Len(devres_release_all(Machine(NoFault)).log)) :
        \E m \in { devres_release_all(Machine(f)) } :
            /\ Commit(Freed(m))
            /\ op' = OpRec("detach", "none", NoVal, "ok", NoVal, Len(m.log))
    /\ state' = "unbound"
    /\ LifeUnchanged

LifeShutdown ==
    /\ state = "active"
    /\ \E f \in FaultsFor(Len(uniwill_shutdown(Machine(NoFault)).log)) :
        \E m \in { uniwill_shutdown(Machine(f)) } :
            /\ Commit(m)
            /\ op' = OpRec("shutdown", "none", NoVal, "ok", NoVal, Len(m.log))
    /\ state' = "off"
    /\ LifeUnchanged

NextLife == LifeProbe \/ LifeDetach \/ LifeShutdown

SpecLife == InitLife /\ [][NextLife]_vars

----------------------------------------------------------------------------
\* SpecAlert: the laptop driver as an observer of the WMI events. The driver
\* registers data->nb on uniwill_wmi_chain_head, the ACPI battery hook adds
\* and removes batteries, the firmware delivers events to uniwill_wmi_notify.
\* uniwill_notifier_call compares its action with UNIWILL_OSD_BATTERY_ALERT,
\* which no file of the tree defines: in SpecAlert target holds the event code
\* the name stands for, any code the firmware sends. In SpecAlert a log entry
\* also has changed, the batteries the observer called power_supply_changed
\* for, in order.

NBatteries == 2     \* batteries the ACPI battery hook may announce
Batteries == 1..NBatteries

\* data->nb, the driver's notifier block (priority 0)
UniwillNb == 0

\* The event codes of the model
EventCodes == { UNIWILL_KEY_CAPSLOCK, UNIWILL_OSD_RADIOON }

\* uniwill_add_battery: when power_supply_register_extension succeeds the new
\* entry is put at the head of data->batteries.
uniwill_add_battery(list, battery, register_ret) ==
    IF register_ret # "ok" THEN [batteries |-> list, ret |-> register_ret]
    ELSE [batteries |-> << battery >> \o list, ret |-> "ok"]

\* uniwill_remove_battery: the first entry of the battery is taken off the list.
uniwill_remove_battery(list, battery) ==
    LET at == { i \in 1..Len(list) : list[i] = battery }
        k == IF at = {} THEN 0 ELSE CHOOSE i \in at : \A j \in at : i <= j
    IN  [batteries |-> IF k = 0 THEN list
                       ELSE SubSeq(list, 1, k - 1) \o SubSeq(list, k + 1, Len(list)),
         ret |-> "ok"]

\* For comparison: an observer that switches on the event code it is handed
\* as data.
uniwill_notifier_call_data(list, action, data, alert) ==
    IF data = alert
    THEN [changed |-> list, ret |-> "NOTIFY_OK"]
    ELSE [changed |-> << >>, ret |-> "NOTIFY_DONE"]

\* uniwill_notifier_call: alert is UNIWILL_OSD_BATTERY_ALERT; changed lists
\* the batteries power_supply_changed is called for.
uniwill_notifier_call(list, action, data, alert) ==
    IF action = alert
    THEN [changed |-> list, ret |-> "NOTIFY_OK"]
    ELSE [changed |-> << >>, ret |-> "NOTIFY_DONE"]

\* uniwill_notifier_init
uniwill_notifier_init(nl) == uniwill_wmi_register_notifier(nl, UniwillNb)

InitAlert ==
    /\ hw = HwBoot
    /\ cache = NoCache
    /\ cache_only = FALSE
    /\ cache_dirty = FALSE
    /\ cache_bypass = FALSE
    /\ last_charge_limit = 0
    /\ last_switch_status = 0
    /\ state = "unbound"
    /\ op = NoOp
    /\ log = << >>
    /\ prev = NoOp
    /\ target \in EventCodes
    /\ trk = TrkBoot
    /\ super_key_lock = NoVal
    /\ tasks = NoTasks
    /\ chain = << >>
    /\ batteries = << >>

AlertUnchanged ==
    UNCHANGED <<hw, cache, cache_only, cache_dirty, cache_bypass, last_charge_limit,
                last_switch_status, state, prev, target, trk, super_key_lock, tasks>>

AlertNotifierInit ==
    /\ ~SeqHas(chain, UniwillNb)
    /\ \E r \in { uniwill_notifier_init(chain) } :
        /\ chain' = r.chain
        /\ op' = OpRec("notifier_init", NoVal, UniwillNb, r.ret, NoVal, 0)
    /\ log' = << >>
    /\ UNCHANGED batteries
    /\ AlertUnchanged

\* The battery hook is registered before the notifier (uniwill_battery_init
\* comes first in uniwill_probe): batteries come and go at any time.
AddBattery ==
    /\ \E battery \in Batteries : \E register_ret \in { "ok", "EEXIST" } :
        /\ ~SeqHas(batteries, battery)
        /\ \E r \in { uniwill_add_battery(batteries, battery, register_ret) } :
            /\ batteries' = r.batteries
            /\ op' = OpRec("add_battery", NoVal, battery, r.ret, NoVal, 0)
    /\ log' = << >>
    /\ UNCHANGED chain
    /\ AlertUnchanged

RemoveBattery ==
    /\ \E battery \in Batteries :
        /\ SeqHas(batteries, battery)
        /\ \E r \in { uniwill_remove_battery(batteries, battery) } :
            /\ batteries' = r.batteries
            /\ op' = OpRec("remove_battery", NoVal, battery, r.ret, NoVal, 0)
    /\ log' = << >>
    /\ UNCHANGED chain
    /\ AlertUnchanged

\* An event arrives: every block of the chain is the driver's and answers as
\* uniwill_notifier_call does for the action and the data it is called with.
AlertNotify ==
    /\ \E obj \in AcpiObjects : \E answers \in [1..Len(chain) -> NotifyResults] :
        \E r \in { uniwill_wmi_notify(chain, obj, answers) } :
            /\ \A i \in 1..Len(r.calls) :
                  r.calls[i].ret = uniwill_notifier_call(batteries, r.calls[i].action,
                                                         r.calls[i].data, target).ret
            /\ log' = [i \in 1..Len(r.calls) |->
                         [observer |-> r.calls[i].observer,
                          action |-> r.calls[i].action,
                          data |-> r.calls[i].data,
                          ret |-> r.calls[i].ret,
                          changed |-> uniwill_notifier_call(batteries, r.calls[i].action,
                                                            r.calls[i].data, target).changed]]
            /\ op' = OpRec("wmi_notify", obj.type, obj.value, r.ret, r.reported,
                           Len(r.calls))
    /\ UNCHANGED <<chain, batteries>>
    /\ AlertUnchanged

NextAlert == AlertNotifierInit \/ AddBattery \/ RemoveBattery \/ AlertNotify

SpecAlert == InitAlert /\ [][NextAlert]_vars

----------------------------------------------------------------------------
\* Claims about the register map (SpecMap)

\* The volatile addresses as the claims list them: the CPU and GPU temperature,
\* the four fan RPM bytes, BAT_ALERT, PWM_1, PWM_2, TRIGGER, SWITCH_STATUS and
\* CHARGE_CTRL
ListedVolatile ==
    { EC_ADDR_CPU_TEMP, EC_ADDR_GPU_TEMP, EC_ADDR_MAIN_FAN_RPM_1,
      EC_ADDR_MAIN_FAN_RPM_2, EC_ADDR_SECOND_FAN_RPM_1,
      EC_ADDR_SECOND_FAN_RPM_2, EC_ADDR_BAT_ALERT, EC_ADDR_PWM_1,
      EC_ADDR_PWM_2, EC_ADDR_TRIGGER, EC_ADDR_SWITCH_STATUS,
      EC_ADDR_CHARGE_CTRL }

ReadWriteCached(reg) ==
    uniwill_readable_reg(reg) /\ uniwill_writeable_reg(reg) /\ reg \notin ListedVolatile

\* C1: whenever a firmware call of a map operation results in 0xFEFEFEFE, the
\* operation returns -ENXIO and delivers no value; a read that met the sentinel
\* changes no cache entry, and the only value a write that met it can leave in
\* the cache is the byte the caller sent, never one taken from the result.
C1_SentinelIsDeviceUnavailable ==
    [][ \A i \in 1..Len(log') :
          log'[i].output = Sentinel =>
            /\ op'.ret = "ENXIO"
            /\ op'.out = NoVal
            /\ log'[i].operation = OP_READ => cache' = cache
            /\ \A r \in Regs : cache'[r] # cache[r] => cache'[r] = log'[i].data
      ]_vars

\* C1 witness: a read of an uncached register met the sentinel and returned
\* -ENXIO, and the register still has no cache entry.
C1_Witness ==
    /\ op.name = "read" /\ op.ret = "ENXIO"
    /\ ~uniwill_volatile_reg(target)
    /\ Len(log) = 1 /\ log[1].output = Sentinel
    /\ cache[target] = NoEntry

\* C2: in Live mode, on a readable, writeable, non-volatile address, a read
\* that directly follows a successful write(addr, v) returns v and issues no
\* firmware call.
C2_WriteThenReadHitsCache ==
    ( /\ prev.name = "write" /\ prev.ret = "ok"
      /\ op.name = "read"
      /\ ~cache_only
      /\ ReadWriteCached(target) )
    => (op.ret = "ok" /\ op.out = prev.val /\ op.calls = 0 /\ log = << >>)

\* C2 witness: such a write and read have happened, while the EC's register
\* holds the value written.
C2_Witness ==
    /\ prev.name = "write" /\ prev.ret = "ok" /\ prev.calls = 1
    /\ op.name = "read" /\ op.ret = "ok" /\ op.out = prev.val
    /\ ~cache_only
    /\ ReadWriteCached(target)
    /\ hw[target] = prev.val

\* C3: no volatile address ever has a cache entry; in Live mode every read of
\* a readable volatile address issues exactly one firmware read of that
\* address, so two reads in a row issue two.
C3_VolatileNeverCached ==
    /\ \A r \in ListedVolatile : cache[r] = NoEntry
    /\ ( /\ op.name = "read" /\ ~cache_only
         /\ target \in ListedVolatile /\ uniwill_readable_reg(target) )
       => /\ op.calls = 1 /\ Len(log) = 1
          /\ log[1].operation = OP_READ /\ log[1].address = target
          /\ prev.name = "read" => prev.calls + op.calls = 2

\* C3 witness: two successful reads in a row of a volatile address that was
\* written before them (CHARGE_CTRL), each with its own firmware call.
C3_Witness ==
    /\ target = EC_ADDR_CHARGE_CTRL
    /\ prev.name = "read" /\ prev.ret = "ok" /\ prev.calls = 1
    /\ op.name = "read" /\ op.ret = "ok" /\ op.calls = 1
    /\ ~cache_only
    /\ op.out = hw[target] /\ op.out # 0

----------------------------------------------------------------------------
\* Claims about suspend and resume (Spec)

\* The firmware writes to TRIGGER among the calls of a log
TriggerWrites(l) ==
    { i \in 1..Len(l) : l[i].operation = OP_WRITE /\ l[i].address = EC_ADDR_TRIGGER }

\* The successful firmware reads of SWITCH_STATUS among the calls of a log
StatusReads(l) ==
    { i \in 1..Len(l) : /\ l[i].operation = OP_READ
                        /\ l[i].address = EC_ADDR_SWITCH_STATUS
                        /\ ~Failed(l[i]) }

\* The firmware writes to CHARGE_CTRL among the calls of a log
ChargeWrites(l) ==
    { i \in 1..Len(l) : l[i].operation = OP_WRITE /\ l[i].address = EC_ADDR_CHARGE_CTRL }

\* C4 as stated: after a live write of X to a non-volatile writeable register,
\* a successful suspend and a successful resume, the firmware has received
\* exactly one write of X to that address.
C4_ExactlyOneWrite == trk.phase = "resumed" => trk.n = 1

\* C4 amended: after a live write of X to a non-volatile writeable register,
\* a successful suspend and a successful resume, the firmware has received
\* exactly two writes of X to that address: the live one, and the one by which
\* the sync of the resume replays the cache entry.
C4_LiveWriteAndReplay == trk.phase = "resumed" => trk.n = 2

\* C4 witness: fn_lock was enabled, the system suspended and resumed, and the
\* EC's register holds the value written.
C4_Witness ==
    /\ op.name = "resume" /\ op.ret = "ok"
    /\ trk.phase = "resumed" /\ trk.n = 2
    /\ trk.reg = EC_ADDR_BIOS_OEM /\ trk.val = FN_LOCK_STATUS
    /\ hw[EC_ADDR_BIOS_OEM] = FN_LOCK_STATUS

\* C5: after a successful suspend and a successful resume the charge limit
\* field of CHARGE_CTRL on the EC is what it was when the suspend ran; a resume
\* writes CHARGE_CTRL only once its sync is complete: the cache is clean and no
\* call before the write failed.
C5_ChargeLimitRestored ==
    op.name = "resume" =>
      /\ op.ret = "ok" =>
           BitAnd(hw[EC_ADDR_CHARGE_CTRL], CHARGE_CTRL_MASK) = trk.charge
      /\ \A i \in ChargeWrites(log) :
           /\ ~cache_dirty
           /\ BitAnd(log[i].data, CHARGE_CTRL_MASK) = trk.charge
           /\ \A j \in 1..(i - 1) : ~Failed(log[j])

\* C5 witness: the EC changed the limit while the system slept and a
\* successful resume wrote the saved limit back.
C5_Witness ==
    /\ op.name = "resume" /\ op.ret = "ok"
    /\ \E i \in ChargeWrites(log) : ~Failed(log[i])
    /\ trk.charge = 80
    /\ BitAnd(hw[EC_ADDR_CHARGE_CTRL], CHARGE_CTRL_MASK) = 80

\* C6: a resume writes the super key lock trigger at most once, and only after
\* it has read a SUPER_KEY_LOCK_STATUS bit that differs from the one at
\* suspend; when the bit read is the same it writes none; a successful resume
\* that read a different bit wrote the trigger exactly once, and after every
\* successful resume the status bit on the EC is the one at suspend.
C6_TriggerOnceIfStatusDiffers ==
    op.name = "resume" =>
      /\ Cardinality(TriggerWrites(log)) <= 1
      /\ \A i \in TriggerWrites(log) :
           /\ log[i].data = TRIGGER_SUPER_KEY_LOCK
           /\ \E j \in StatusReads(log) :
                j < i /\ BitAnd(log[j].output[1], SUPER_KEY_LOCK_STATUS) # trk.skl
      /\ \A j \in StatusReads(log) :
           IF BitAnd(log[j].output[1], SUPER_KEY_LOCK_STATUS) = trk.skl
           THEN TriggerWrites(log) = {}
           ELSE op.ret = "ok" => Cardinality(TriggerWrites(log)) = 1
      /\ op.ret = "ok" =>
           /\ StatusReads(log) # {}
           /\ BitAnd(hw[EC_ADDR_SWITCH_STATUS], SUPER_KEY_LOCK_STATUS) = trk.skl

\* C6 witness: the super key was locked at suspend, unlocked while the system
\* slept, and a successful resume wrote the trigger once.
C6_Witness ==
    /\ op.name = "resume" /\ op.ret = "ok"
    /\ Cardinality(TriggerWrites(log)) = 1
    /\ trk.skl = SUPER_KEY_LOCK_STATUS
    /\ hw[EC_ADDR_SWITCH_STATUS] = SUPER_KEY_LOCK_STATUS

\* C7 as stated: a successful suspend has cleared ENABLE_MANUAL_CTRL of AP_OEM
\* on the EC by a firmware write that left the cache entry of AP_OEM alone,
\* before the map went into cache-only mode.
C7_SuspendClearsManualControl ==
    (op.name = "suspend" /\ op.ret = "ok") =>
      /\ cache_only
      /\ BitAnd(hw[EC_ADDR_AP_OEM], ENABLE_MANUAL_CTRL) = 0
      /\ BitAnd(cache[EC_ADDR_AP_OEM], ENABLE_MANUAL_CTRL) = ENABLE_MANUAL_CTRL
      /\ \E i \in 1..Len(log) : /\ log[i].operation = OP_WRITE
                                /\ log[i].address = EC_ADDR_AP_OEM

ResumeAborts ==
    \A i \in 1..Len(log) :
      Failed(log[i]) =>
        /\ i = Len(log)
        /\ op.ret = IF log[i].ret # "ok" THEN log[i].ret ELSE "ENXIO"

\* In a resume, a failed write of the sync leaves the cache dirty.
SyncFailureStaysDirty ==
    \A i \in 1..Len(log) :
      ( /\ Failed(log[i]) /\ log[i].operation = OP_WRITE
        /\ ~uniwill_volatile_reg(log[i].address) ) => cache_dirty

\* C9 as stated: a failed write ends the sync and the resume returns the error;
\* the entries written before the failure are clean (no later sync writes them
\* again), the others stay dirty.
C9_WrittenEntriesAreClean ==
    op.name = "resume" =>
      /\ ResumeAborts
      /\ SyncFailureStaysDirty
      /\ ~trk.redone

\* C9 amended: a failed write ends the sync and the resume returns the error;
\* the cache as a whole stays dirty, and the next sync that completes writes
\* every cached writeable register, those written before the failure too.
C9_SyncAbortsAndCacheStaysDirty ==
    op.name = "resume" =>
      /\ ResumeAborts
      /\ SyncFailureStaysDirty
      /\ ~cache_dirty =>
           /\ \A r \in Regs :
                (cache[r] # NoEntry /\ uniwill_writeable_reg(r))
                  => (SyncedBy(log, r) /\ hw[r] = cache[r])
           /\ trk.retry => trk.redone

\* C9 witness: a resume whose sync failed after its first write was followed
\* by a suspend and a resume whose sync wrote that register again.
C9_Witness ==
    /\ op.name = "resume" /\ op.ret = "ok"
    /\ trk.retry /\ trk.redone
    /\ ~cache_dirty

\* C10 as stated: a resume leaves no cache entry present, and the first show of
\* a non-volatile register after a successful resume issues a firmware read.
C10_CacheInvalidatedOnResume ==
    /\ op.name = "resume" => \A r \in Regs : cache[r] = NoEntry
    /\ (op.name = "fn_lock_show" /\ trk.after \in { "hit", "miss" }) => op.calls = 1

\* C10 amended: a resume changes no cache entry; the first show of a
\* non-volatile register after a successful resume is served from the entry
\* the register has, without a firmware call, and issues a firmware read only
\* when the register has no entry.
C10_ResumeKeepsCache ==
    [][ /\ op'.name = "resume" => cache' = cache
        /\ (op'.name = "fn_lock_show" /\ trk'.after = "hit") =>
             /\ op'.calls = 0 /\ op'.ret = "ok"
             /\ op'.out * FN_LOCK_STATUS = BitAnd(cache[EC_ADDR_BIOS_OEM], FN_LOCK_STATUS)
        /\ (op'.name = "fn_lock_show" /\ trk'.after = "miss") => op'.calls = 1
      ]_vars

\* C10 witness: fn_lock, enabled before the suspend, was shown right after the
\* resume from the cache, without a firmware call.
C10_Witness ==
    /\ op.name = "fn_lock_show" /\ op.ret = "ok" /\ op.calls = 0
    /\ trk.after = "hit"
    /\ op.out = 1
    /\ cache[EC_ADDR_BIOS_OEM] = FN_LOCK_STATUS


----------------------------------------------------------------------------
\* Claims about the super key lock (SpecToggle, SpecPm)

\* What a task asked for: 1 for "enable", 0 for "disable"
Desired(t) == sysfs_match_string(tasks[t].buf)

\* The setting a status byte stands for, as super_key_lock_show reports it:
\* 1 (enabled) when SUPER_KEY_LOCK_STATUS is clear
Setting(byte) == LogicalNot(BitAnd(byte, SUPER_KEY_LOCK_STATUS))

Returned(t) == tasks[t].pc = "done" /\ tasks[t].ret = "ok"

\* C11 (as claimed): two calls of super_key_lock_store with the same desired
\* value, nothing else changing the status, write the trigger at most once in
\* total; and a call that finds the status already equal to the desired value
\* returns success without any write to the trigger register.
C11_ToggleGuardIdempotent ==
    /\ \A t, u \in Tasks :
        (t # u /\ Returned(t) /\ Returned(u) /\ tasks[t].buf = tasks[u].buf)
            => tasks[t].fired + tasks[u].fired <= 1
    /\ \A t \in Tasks :
        (Returned(t) /\ Setting(tasks[t].value) = Desired(t))
            => tasks[t].fired = 0

\* C12 (as claimed): of two concurrent calls of super_key_lock_store, the
\* status read, comparison and trigger write of one are never interleaved with
\* those of the other; when both ask for the same value the trigger fires at
\* most once in total and the final status equals the desired value.
C12_SerializedAndFinalStatus ==
    /\ \A t, u \in Tasks :
        (t # u /\ tasks[t].pc \in { "read", "compare", "write" })
            => tasks[u].pc \notin { "read", "compare", "write" }
    /\ \A t \in Tasks : ~tasks[t].stale
    /\ \A t, u \in Tasks :
        (t # u /\ Returned(t) /\ Returned(u) /\ tasks[t].buf = tasks[u].buf
              /\ TasksFrozen)
            => /\ tasks[t].fired + tasks[u].fired <= 1
               /\ Setting(hw[EC_ADDR_SWITCH_STATUS]) = Desired(t)

----------------------------------------------------------------------------
\* Claims about the lightbar (SpecLed)

LedChannels == 1..Len(uniwill_led_channel_to_ac_reg)

\* Every AC color register holds what the battery color register of the same
\* channel holds.
LedColorsMirrored ==
    \A i \in LedChannels :
        hw[uniwill_led_channel_to_ac_reg[i]] = hw[uniwill_led_channel_to_bat_reg[i]]

LedSetReturned(ok) ==
    op.name = "led_brightness_set" /\ (op.ret = "ok") = ok

\* C14 (as claimed): once uniwill_led_init has succeeded, after every
\* uniwill_led_brightness_set that returns success each AC color register
\* equals the battery color register of the same channel, and LIGHTBAR_AC_CTRL
\* and LIGHTBAR_BAT_CTRL are bit-for-bit identical.
C14_BanksBitForBit ==
    LedSetReturned(TRUE)
        => /\ LedColorsMirrored
           /\ hw[EC_ADDR_LIGHTBAR_AC_CTRL] = hw[EC_ADDR_LIGHTBAR_BAT_CTRL]

C16_FailedSetLeavesNoPartial ==
    (/\ op.name = "led_brightness_set"
     /\ \E i \in 1..Len(log) : log[i].operation = OP_WRITE /\ Failed(log[i]))
        => /\ op.ret # "ok"
           /\ LedColorsMirrored
           /\ BitAnd(hw[EC_ADDR_LIGHTBAR_AC_CTRL], LIGHTBAR_S0_OFF)
                = BitAnd(hw[EC_ADDR_LIGHTBAR_BAT_CTRL], LIGHTBAR_S0_OFF)

----------------------------------------------------------------------------
\* Claims about the charge threshold (SpecBat)

ThresholdSet(o) ==
    o.name = "set_property" /\ o.reg = "CHARGE_CONTROL_END_THRESHOLD"

\* C17: setting the charge threshold to a value below 1 or above 100 is
\* rejected with -EINVAL, issues no transport call and leaves CHARGE_CTRL (and
\* the map) unchanged.
C17_OutOfRangeRejected ==
    [][(ThresholdSet(op') /\ (op'.val < 1 \/ op'.val > 100))
          => /\ op'.ret = "EINVAL"
             /\ log' = << >>
             /\ hw' = hw
             /\ cache' = cache]_vars

\* C17 witness: a threshold of 150 was rejected while CHARGE_CTRL held a limit
\* of 80 with the reached flag set.
C17_Witness ==
    /\ ThresholdSet(op) /\ op.val = 150 /\ op.ret = "EINVAL" /\ op.calls = 0
    /\ hw[EC_ADDR_CHARGE_CTRL] = 80 + CHARGE_CTRL_REACHED

\* C18: for a threshold v in 1..100 and either value of the reached flag, a
\* successful set leaves v in the 7-bit field and bit 7 as it was, every byte
\* it sends carries v and the reached flag as read; and a read of the
\* threshold right after it returns v.
C18_SetThenGetReturnsThreshold ==
    [][/\ (ThresholdSet(op') /\ op'.ret = "ok")
            => /\ op'.val \in 1..100
               /\ BitAnd(hw'[EC_ADDR_CHARGE_CTRL], CHARGE_CTRL_MASK) = op'.val
               /\ BitAnd(hw'[EC_ADDR_CHARGE_CTRL], CHARGE_CTRL_REACHED)
                    = BitAnd(hw[EC_ADDR_CHARGE_CTRL], CHARGE_CTRL_REACHED)
               /\ \A i \in 1..Len(log') :
                    log'[i].operation = OP_WRITE
                        => /\ log'[i].address = EC_ADDR_CHARGE_CTRL
                           /\ log'[i].data
                                = op'.val + BitAnd(hw[EC_ADDR_CHARGE_CTRL],
                                                   CHARGE_CTRL_REACHED)
       /\ (/\ op'.name = "get_property" /\ op'.reg = "CHARGE_CONTROL_END_THRESHOLD"
           /\ op'.ret = "ok" /\ ThresholdSet(op) /\ op.ret = "ok")
            => op'.out = op.val]_vars

\* C18 witness: the threshold was set to 50 while the reached flag was set,
\* and the read that followed returned 50 with the flag still set.
C18_Witness ==
    /\ op.name = "get_property" /\ op.reg = "CHARGE_CONTROL_END_THRESHOLD"
    /\ op.ret = "ok" /\ op.out = 50
    /\ ThresholdSet(prev) /\ prev.ret = "ok" /\ prev.val = 50 /\ prev.calls = 2
    /\ hw[EC_ADDR_CHARGE_CTRL] = 50 + CHARGE_CTRL_REACHED

----------------------------------------------------------------------------
\* Claims about the sensors (SpecHwmon)

\* The error a failed firmware call is turned into
ErrorOf(e) == IF e.ret # "ok" THEN e.ret ELSE "ENXIO"

\* C19 (as claimed): every uniwill_read for the temperature, fan and pwm
\* types, channels 0 and 1, whose underlying register read fails returns that
\* same error and reports no value.
C19_ReadErrorsPropagate ==
    (/\ op.name = "read_sensor"
     /\ op.reg \in { "temp", "fan", "pwm" }
     /\ op.val \in { 0, 1 })
        => \A i \in 1..Len(log) :
              Failed(log[i]) => op.ret = ErrorOf(log[i]) /\ op.out = NoVal

----------------------------------------------------------------------------
\* Claims about the WMI events (SpecWmi)

\* The observers were called synchronously, in the order of the chain, each
\* with the event; and none was called after one that returned a result with
\* NOTIFY_STOP_MASK, which alone ends the calls early.
CalledInOrderUntilStop ==
    /\ Len(log) <= Len(chain)
    /\ \A i \in 1..Len(log) :
        /\ log[i].observer = chain[i]
        /\ log[i].data = op.val
        /\ NOTIFY_STOP_MASK(log[i].ret) => i = Len(log)
    /\ Len(log) < Len(chain) => (Len(log) > 0 /\ NOTIFY_STOP_MASK(log[Len(log)].ret))

IntegerEvent == op.name = "wmi_notify" /\ op.reg = "ACPI_TYPE_INTEGER"

\* C20 (as claimed): for every hardware event the observers are called in
\* order, and as soon as one returns a "handled, stop" result (one with
\* NOTIFY_STOP_MASK) no later observer is called and the event is not passed on
\* to the key mapping.
C20_StopWithholdsKey ==
    IntegerEvent
        => /\ CalledInOrderUntilStop
           /\ (\E i \in 1..Len(log) : NOTIFY_STOP_MASK(log[i].ret)) => op.out = NoVal

\* C20 (amended): the observers are called in order and none after one that
\* returned a result with NOTIFY_STOP_MASK; the event is withheld from the key
\* mapping exactly when that result is NOTIFY_BAD, and is reported with its
\* code otherwise, after NOTIFY_STOP too.
C20_OnlyBadWithholdsKey ==
    IntegerEvent
        => /\ CalledInOrderUntilStop
           /\ IF \E i \in 1..Len(log) : log[i].ret = "NOTIFY_BAD"
              THEN op.out = NoVal
              ELSE op.out = op.val

\* C20 witness: of three observers the first let the event pass, the second
\* returned NOTIFY_BAD, the third was not called, and no key was reported.
C20_Witness ==
    /\ IntegerEvent
    /\ Len(chain) = 3 /\ Len(log) = 2
    /\ log[1].ret = "NOTIFY_OK" /\ log[2].ret = "NOTIFY_BAD"
    /\ op.out = NoVal

----------------------------------------------------------------------------
\* Claims about the pwm duty (SpecPwm)

\* uniwill_read has just read a pwm channel and the register read succeeded.
PwmReadOk ==
    /\ op.name = "read_sensor"
    /\ op.reg = "pwm"
    /\ op.val \in { 0, 1 }
    /\ op.ret = "ok"
    /\ Len(log) = 1
    /\ ~Failed(log[1])

\* The raw byte that read took from the EC
PwmRaw == hw[uniwill_read_reg("pwm", op.val)]

\* C21 (as claimed): for every raw byte 0..255 read from EC_ADDR_PWM_1 or
\* EC_ADDR_PWM_2, the duty uniwill_read reports lies in 0..255.
C21_PwmDutyWithinByte ==
    PwmReadOk => op.out \in 0..U8_MAX

\* C22: the rescaling uniwill_read applies is exact at both ends (raw 0 is
\* reported as 0, raw PWM_MAX as 255) and monotonic over 0..PWM_MAX: the duty
\* reported for a raw byte is not below the duty of any smaller raw byte and
\* not above the duty of any larger one.
C22_PwmRescaleExactAndMonotonic ==
    (PwmReadOk /\ PwmRaw \in 0..PWM_MAX)
        => /\ PwmRaw = 0 => op.out = 0
           /\ PwmRaw = PWM_MAX => op.out = U8_MAX
           /\ \A y \in 0..PWM_MAX :
                LET duty == fixp_linear_interpolate(0, 0, PWM_MAX, U8_MAX, y)
                IN  /\ y <= PwmRaw => duty <= op.out
                    /\ y >= PwmRaw => duty >= op.out

\* C22 witness: a raw byte strictly inside the range was read and reported
\* (raw 100 as duty 127).
C22_Witness ==
    /\ PwmReadOk
    /\ op.val = 0
    /\ PwmRaw = 100
    /\ op.out = 127

----------------------------------------------------------------------------
\* Claims about unlisted addresses (SpecMap)

\* The writeable addresses as the driver's table lists them
ListedWriteable ==
    { EC_ADDR_AP_OEM, EC_ADDR_LIGHTBAR_AC_CTRL, EC_ADDR_LIGHTBAR_AC_RED,
      EC_ADDR_LIGHTBAR_AC_GREEN, EC_ADDR_LIGHTBAR_AC_BLUE, EC_ADDR_BIOS_OEM,
      EC_ADDR_TRIGGER, EC_ADDR_OEM_4, EC_ADDR_CHARGE_CTRL,
      EC_ADDR_LIGHTBAR_BAT_CTRL, EC_ADDR_LIGHTBAR_BAT_RED,
      EC_ADDR_LIGHTBAR_BAT_GREEN, EC_ADDR_LIGHTBAR_BAT_BLUE }

\* The one address of the model that no table lists
Unlisted == { EC_ADDR_SUPPORT_5 }

\* The step was a read of an address that is not readable
UnreadableRead == op'.name = "read" /\ op'.reg \in Unlisted

\* The step was a write to an address that is not writeable
UnwriteableWrite == op'.name = "write" /\ op'.reg \notin ListedWriteable

\* The step issued no firmware call and changed neither the cache nor the EC
NothingIssued ==
    /\ op'.calls = 0
    /\ log' = << >>
    /\ cache' = cache
    /\ cache_dirty' = cache_dirty
    /\ hw' = hw

C23_WitnessRead ==
    /\ target = EC_ADDR_SUPPORT_5
    /\ op.name = "read" /\ op.ret = "EIO" /\ op.calls = 0
    /\ ~cache_only

----------------------------------------------------------------------------
\* Claims about fn_lock and touchpad_toggle (SpecAttr)

\* The show that reads what a store sets
ShowOf(store) ==
    IF store = "fn_lock_store" THEN "fn_lock_show" ELSE "touchpad_toggle_show"

AttrStores == { "fn_lock_store", "touchpad_toggle_store" }

\* The setting (1 enable, 0 disable) a byte of the attribute's register stands for
AttrSetting(store, byte) ==
    IF store = "fn_lock_store"
    THEN (IF BitAnd(byte, FN_LOCK_STATUS) # 0 THEN 1 ELSE 0)
    ELSE (IF BitAnd(byte, TOUCHPAD_TOGGLE_OFF) # 0 THEN 0 ELSE 1)

\* The byte the register holds as the map sees it: its cache entry, or the
\* EC's byte when it has none
Held(reg) == IF cache[reg] # NoEntry THEN cache[reg] ELSE hw[reg]

C24_WitnessNoWrite ==
    /\ op.name = "fn_lock_store" /\ op.ret = "ok" /\ op.val = 1
    /\ op.calls = 0
    /\ state = "active"

----------------------------------------------------------------------------
\* Claims about a failed live write (SpecMap)

\* The step was a write to a cached register while the map was live, and its
\* firmware call failed.
LiveWriteFailed ==
    /\ op'.name = "write"
    /\ ~cache_only
    /\ op'.reg \in ListedWriteable /\ op'.reg \notin ListedVolatile
    /\ Len(log') = 1
    /\ log'[1].operation = OP_WRITE
    /\ Failed(log'[1])

\* C25 (as claimed): when the firmware call of a live write to a non-volatile
\* register fails, the write returns the error and the register's cache entry
\* is as it was before the write.
C25_FailedWriteLeavesCache ==
    [][ LiveWriteFailed
          => (op'.ret = ErrorOf(log'[1]) /\ cache' = cache) ]_vars

----------------------------------------------------------------------------
\* Claims about the battery alert (SpecAlert)

\* The call of the driver's observer for the last event
UniwillCalls == { i \in 1..Len(log) : log[i].observer = UniwillNb }

\* Every battery of the list was signalled exactly once, and nothing else
SignalledOnce(changed) ==
    /\ Len(changed) = Len(batteries)
    /\ \A i \in 1..Len(batteries) :
          Cardinality({ j \in 1..Len(changed) : changed[j] = batteries[i] }) = 1

\* C27 (as claimed): when the firmware delivers the battery-alert code through
\* uniwill_wmi_notify, uniwill_notifier_call calls power_supply_changed exactly
\* once for each battery of data->batteries and returns NOTIFY_OK; for every
\* other event code it signals no battery.
C27_BatteryAlertSignalsBatteries ==
    (/\ IntegerEvent
     /\ SeqHas(chain, UniwillNb))
        => /\ UniwillCalls # {}
           /\ \A i \in UniwillCalls :
                IF op.val = target
                THEN log[i].ret = "NOTIFY_OK" /\ SignalledOnce(log[i].changed)
                ELSE log[i].changed = << >>

----------------------------------------------------------------------------
\* Claims about the writes to EC_ADDR_CHARGE_CTRL (SpecCharge)

\* The limit field of the byte a firmware call carries
LimitOf(e) == BitAnd(e.data, CHARGE_CTRL_MASK)

\* C28 (as claimed): every firmware write to EC_ADDR_CHARGE_CTRL the driver
\* issues, by uniwill_set_property or by the restore of uniwill_resume, carries
\* a limit field in 1..100, whatever the field held when uniwill_suspend
\* saved it.
C28_ChargeWritesWithinRange ==
    \A i \in ChargeWrites(log) : LimitOf(log[i]) \in 1..100

\* C28 (amended): a write to EC_ADDR_CHARGE_CTRL is issued by
\* uniwill_set_property or by uniwill_resume only. The one of
\* uniwill_set_property carries the requested threshold, which is in 1..100;
\* the one of uniwill_resume carries the limit field uniwill_suspend saved, as
\* it was (0 and values above 100 included).
C28_SetInRangeRestoreAsSaved ==
    \A i \in ChargeWrites(log) :
        IF op.name = "set_property"
        THEN LimitOf(log[i]) = op.val /\ op.val \in 1..100
        ELSE /\ op.name = "resume"
             /\ LimitOf(log[i]) = last_charge_limit
             /\ LimitOf(log[i]) = trk.charge

\* C28 witness: uniwill_resume restored the limit 120 that the EC held at the
\* suspend and had lost while asleep.
C28_Witness ==
    /\ op.name = "resume" /\ op.ret = "ok"
    /\ trk.charge = 120
    /\ \E i \in ChargeWrites(log) : LimitOf(log[i]) = 120 /\ ~Failed(log[i])
    /\ hw[EC_ADDR_CHARGE_CTRL] = 120

----------------------------------------------------------------------------
\* Claims about the registers restored by a resume (SpecAttr)

\* The writeable registers the map caches
RestoredRegs == ListedWriteable \ ListedVolatile

\* C29: between a successful uniwill_suspend and uniwill_resume no cache entry
\* changes, and after a successful uniwill_resume every writeable non-volatile
\* register that had a cache entry at the suspend holds the cached value on
\* the EC, also when the EC lost the register's content while asleep; in
\* particular ENABLE_MANUAL_CTRL of EC_ADDR_AP_OEM is set on the EC again.
C29_ResumeRestoresCachedRegisters ==
    [][ /\ (state = "suspended" /\ op'.name # "resume") => cache' = cache
        /\ (state = "suspended" /\ op'.name = "resume" /\ op'.ret = "ok")
              => /\ \A r \in RestoredRegs :
                      cache[r] # NoEntry => (hw'[r] = cache[r] /\ cache'[r] = cache[r])
                 /\ cache[EC_ADDR_AP_OEM] # NoEntry
                 /\ BitAnd(hw'[EC_ADDR_AP_OEM], ENABLE_MANUAL_CTRL) # 0 ]_vars

\* C29 witness: a successful resume has put back the function lock, the
\* touchpad setting and ENABLE_MANUAL_CTRL, none of which the EC boots with.
C29_Witness ==
    /\ op.name = "resume" /\ op.ret = "ok"
    /\ hw[EC_ADDR_BIOS_OEM] = FN_LOCK_STATUS /\ HwBoot[EC_ADDR_BIOS_OEM] = 0
    /\ hw[EC_ADDR_OEM_4] = TOUCHPAD_TOGGLE_OFF /\ HwBoot[EC_ADDR_OEM_4] = 0
    /\ BitAnd(hw[EC_ADDR_AP_OEM], ENABLE_MANUAL_CTRL) # 0
    /\ \E i \in 1..Len(log) :
          /\ log[i].operation = OP_WRITE /\ log[i].address = EC_ADDR_OEM_4
          /\ log[i].data = TOUCHPAD_TOGGLE_OFF

----------------------------------------------------------------------------
\* Claims about ENABLE_MANUAL_CTRL over the driver's life (SpecLife)

\* The firmware writes to EC_ADDR_AP_OEM that clear ENABLE_MANUAL_CTRL, among
\* the calls of the last operation
ManualCtrlClears ==
    { i \in 1..Len(log) : /\ log[i].operation = OP_WRITE
                          /\ log[i].address = EC_ADDR_AP_OEM
                          /\ BitAnd(log[i].data, ENABLE_MANUAL_CTRL) = 0 }

ManualCtrlOnEc == BitAnd(hw[EC_ADDR_AP_OEM], ENABLE_MANUAL_CTRL) # 0

\* The last operation tore the driver down after uniwill_ec_init had set the
\* bit: a probe that failed at a later step, a detach, or a shutdown.
TornDown ==
    \/ op.name = "probe" /\ op.ret # "ok" /\ op.reg # "ec_init"
    \/ op.name \in { "detach", "shutdown" }

\* C30: after a successful uniwill_probe (and so a successful uniwill_ec_init)
\* ENABLE_MANUAL_CTRL is set on the EC; a probe that fails at a step after the
\* bit was set, a detach and a shutdown each issue a firmware write to
\* EC_ADDR_AP_OEM with the bit clear, and when that write succeeds the bit is
\* clear on the EC afterwards.
C30_ManualControlLifecycle ==
    /\ (op.name = "probe" /\ op.ret = "ok") => ManualCtrlOnEc
    /\ TornDown
          => /\ ManualCtrlClears # {}
             /\ (\E i \in ManualCtrlClears : ~Failed(log[i])) => ~ManualCtrlOnEc

\* C30 witness: uniwill_hwmon_init failed after the bit had been set and the
\* LED registered; the clearing write succeeded and the bit is clear on the EC,
\* the register's other bit as it was.
C30_Witness ==
    /\ op.name = "probe" /\ op.ret = "ENOMEM" /\ op.reg = "hwmon_init"
    /\ \E i \in ManualCtrlClears : ~Failed(log[i])
    /\ hw[EC_ADDR_AP_OEM] = ENABLE_MANUAL_CTRL + ENABLE_MANUAL_CTRL
    /\ state = "unbound"

----------------------------------------------------------------------------
\* Claims about a failed uniwill_suspend (SpecCharge)

\* The step is a uniwill_suspend that returned an error.
SuspendFailed == op'.name = "suspend" /\ op'.ret # "ok"

\* C31: when the read of EC_ADDR_SWITCH_STATUS or of EC_ADDR_CHARGE_CTRL in
\* uniwill_suspend fails, uniwill_suspend returns the error of that read, the
\* map is not put into cache-only mode, the cache's dirty mark is as it was,
\* and the saved charge limit keeps its value.
C31_FailedSuspendStaysLive ==
    [][SuspendFailed
          => /\ Len(log') \in { 1, 2 }
             /\ log'[1].address = EC_ADDR_SWITCH_STATUS
             /\ Len(log') = 2 => log'[2].address = EC_ADDR_CHARGE_CTRL
             /\ \A i \in 1..Len(log') : log'[i].operation = OP_READ
             /\ Failed(log'[Len(log')])
             /\ op'.ret = ErrorOf(log'[Len(log')])
             /\ cache_only' = FALSE
             /\ cache_dirty' = cache_dirty
             /\ last_charge_limit' = last_charge_limit
             /\ state' = "active"]_vars

\* C31 witness: the read of EC_ADDR_CHARGE_CTRL failed in a suspend; the map
\* is live and the charge limit saved by an earlier suspend is still there,
\* though the EC holds another limit by now.
C31_Witness ==
    /\ op.name = "suspend" /\ op.ret # "ok"
    /\ Len(log) = 2 /\ log[2].address = EC_ADDR_CHARGE_CTRL /\ Failed(log[2])
    /\ cache_only = FALSE
    /\ last_charge_limit = 100
    /\ BitAnd(hw[EC_ADDR_CHARGE_CTRL], CHARGE_CTRL_MASK) = 1

====
